---------------------------- MODULE Spec2Model ----------------------------
(***************************************************************************)
(* A model of the formcalc formula engine: the dependency graph and its    *)
(* layered topological sort (src/src/graph/mod.rs), the tree-walking       *)
(* evaluator (src/src/parser/evaluator.rs), the four shared caches         *)
(* (src/src/cache/mod.rs) and the engine that runs a batch layer by layer  *)
(* with the formulas of one layer in parallel (src/src/engine.rs).         *)
(***************************************************************************)
EXTENDS Integers, Sequences, FiniteSets, TLC

VARIABLES
    graph,                  \* DAGraph: [data, incoming_edges, outgoing_edges]
    layers,                 \* layers returned by the last topological_sort
    detached,               \* detached list returned by the last topological_sort
    pc,                     \* position of the host / of Engine::execute
    variable_cache,         \* Engine.variable_cache
    formula_result_cache,   \* Engine.formula_result_cache
    function_cache,         \* Engine.function_cache (the registry)
    function_result_cache,  \* Engine.function_result_cache
    errors,                 \* Engine.errors
    batch,                  \* the formulas of the current / last execute call
    ret,                    \* what the last execute call returned
    li,                     \* index of the layer being executed
    wlog,                   \* per worker of the layer: its function-result-cache accesses so far
    results,                \* per worker of the layer: the (name, Result<Value>) it collected
    nexec,                  \* execute calls made on this engine so far
    evals,                  \* per formula name: evaluations in the current execute call
    observed,               \* per formula name: what the evaluation behind its stored result read
    engineNo,               \* 1 for the first engine, 2 for the second one
    first,                  \* outcome of the first engine, once a second one is built
    failed,                 \* formula names whose evaluation failed in the current execute call
    invoked,                \* per function id: Function::execute calls since the last clear
    nclear,                 \* clear calls made so far
    unsatisfied,            \* topological_sort: the keys the last iteration left unsatisfied
    returned                \* what the last call of a function without effects returned

vars == <<graph, layers, detached, pc, variable_cache, formula_result_cache,
          function_cache, function_result_cache, errors, batch, ret, li, wlog,
          results, nexec, evals, observed, engineNo, first, failed,
          invoked, nclear, unsatisfied, returned>>

\* what the sort specification leaves alone
sortFrame == <<variable_cache, formula_result_cache, function_cache,
               function_result_cache, errors, batch, li, wlog, results,
               nexec, evals, observed, engineNo, first, failed, invoked,
               nclear, unsatisfied, returned>>

-----------------------------------------------------------------------------
(* Bounds of the model. *)

\* clear calls on one engine in the cache specification
MaxClears == 1

\* nodes of a graph in the sort specification
MaxNodes == 3
\* declared edges of a graph in the sort specification
MaxEdges == 5
\* formulas of a batch
MaxBatch == 3
\* execute calls on one engine in the re-execution specification
MaxExecutes == 2

-----------------------------------------------------------------------------
(* Helpers: maps are functions whose DOMAIN is the set of keys present. *)

EmptyMap == <<>>

Range(s) == {s[i] : i \in DOMAIN s}

\* HashMap::insert: the new entry replaces an older one under the same key
MapInsert(m, k, v) == (k :> v) @@ m

RECURSIVE SetToSeq(_)
SetToSeq(S) ==
    IF S = {} THEN <<>>
    ELSE LET x == CHOOSE y \in S : TRUE IN <<x>> \o SetToSeq(S \ {x})

-----------------------------------------------------------------------------
(* The dependency graph, src/src/graph/mod.rs *)

\* DAGraph::new
NewGraph == [data |-> EmptyMap, incoming_edges |-> EmptyMap, outgoing_edges |-> EmptyMap]

\* DAGraph::add_edges: outgoing (a Vec) is collected into a set; every
\* destination gets key as an incoming edge; key gets the set as outgoing edges
add_edges(g, key, outgoing) ==
    LET outgoing_set == Range(outgoing)
        inc == g.incoming_edges
    IN [g EXCEPT
          !.incoming_edges =
              [dest \in DOMAIN inc \cup outgoing_set |->
                  (IF dest \in DOMAIN inc THEN inc[dest] ELSE {})
                  \cup (IF dest \in outgoing_set THEN {key} ELSE {})],
          !.outgoing_edges = MapInsert(g.outgoing_edges, key, outgoing_set)]

\* an add_node that accepts a key that is already a node and replaces it
add_node_replacing(g, key, data, outgoing) ==
    [ok |-> TRUE,
     g |-> add_edges([g EXCEPT !.data = MapInsert(g.data, key, data)], key, outgoing)]

\* DAGraph::add_node: Err when the key is already a node, else insert the
\* payload and the edges
add_node(g, key, data, outgoing) ==
    IF key \in DOMAIN g.outgoing_edges
    THEN [ok |-> FALSE, g |-> g]
    ELSE [ok |-> TRUE,
          g |-> add_edges([g EXCEPT !.data = MapInsert(g.data, key, data)], key, outgoing)]

\* the same with a node whose destinations are all unknown keys taken for a
\* node without outgoing edges
FirstLayerLoose(g) ==
    {key \in DOMAIN g.outgoing_edges :
        \A dest \in g.outgoing_edges[key] : dest \notin DOMAIN g.outgoing_edges}

\* first loop of topological_sort: the nodes without outgoing edges
FirstLayer(g) ==
    {key \in DOMAIN g.outgoing_edges : g.outgoing_edges[key] = {}}

\* the same with the test for a key that is not a node inverted
PreDetachedNeg(g) ==
    {key \in DOMAIN g.outgoing_edges :
        /\ g.outgoing_edges[key] # {}
        /\ \E dest \in g.outgoing_edges[key] : dest \in DOMAIN g.outgoing_edges}

\* the same with no node classified: a key that is no node is not looked for
PreDetachedNone(g) == {}

\* first loop of topological_sort: the nodes with an outgoing edge to a key
\* that is not a node
PreDetached(g) ==
    {key \in DOMAIN g.outgoing_edges :
        /\ g.outgoing_edges[key] # {}
        /\ \E dest \in g.outgoing_edges[key] : dest \notin DOMAIN g.outgoing_edges}

\* the candidates of one iteration: the nodes with an edge into the previous
\* layer, and the keys left unsatisfied by the iteration before
Candidates(g, prevLayer, unsatisfied_keys) ==
    {key \in DOMAIN g.outgoing_edges :
        \E prev \in prevLayer :
            prev \in DOMAIN g.incoming_edges /\ key \in g.incoming_edges[prev]}
    \cup unsatisfied_keys

\* the same check with `any` in the place of `all`
AllSatisfiedAny(g, candidate, satisfied_keys) ==
    \E dep \in g.outgoing_edges[candidate] : dep \in satisfied_keys

\* the check made for one candidate
AllSatisfied(g, candidate, satisfied_keys) ==
    \A dep \in g.outgoing_edges[candidate] : dep \in satisfied_keys

\* `for candidate in candidates`: candidates is a HashSet, iterated in an
\* order the program does not choose, and satisfied_keys grows while the loop
\* runs. The result is the set of outcomes over all traversal orders.
RECURSIVE ProcessCandidates(_, _, _, _, _)
ProcessCandidates(g, candidates, satisfied_keys, current_level, unsatisfied_keys) ==
    IF candidates = {}
    THEN {[current_level |-> current_level, satisfied_keys |-> satisfied_keys,
           unsatisfied_keys |-> unsatisfied_keys]}
    ELSE UNION {
           IF AllSatisfied(g, candidate, satisfied_keys)
           THEN ProcessCandidates(g, candidates \ {candidate},
                                  satisfied_keys \cup {candidate},
                                  current_level \cup {candidate}, unsatisfied_keys)
           ELSE ProcessCandidates(g, candidates \ {candidate}, satisfied_keys,
                                  current_level, unsatisfied_keys \cup {candidate})
           : candidate \in candidates}

\* `while !layers.last().unwrap().is_empty()`, then `layers.pop()`
RECURSIVE SortLoop(_, _, _, _)
SortLoop(g, lys, satisfied_keys, unsatisfied_keys) ==
    IF lys[Len(lys)] = {}
    THEN {[layers |-> SubSeq(lys, 1, Len(lys) - 1), unsatisfied_keys |-> unsatisfied_keys]}
    ELSE UNION {
           SortLoop(g, Append(lys, r.current_level), r.satisfied_keys, r.unsatisfied_keys)
           : r \in ProcessCandidates(g, Candidates(g, lys[Len(lys)], unsatisfied_keys),
                                     satisfied_keys, {}, {})}

\* DAGraph::topological_sort: every (layers, detached) the call can return.
\* A layer is a Vec without repetitions (layer 0 walks the keys of a map, the
\* later ones walk a HashSet) whose order no caller reads; it is kept as a set.
\* detached is the pre-classified keys followed by the keys left unsatisfied.
topological_sort(g) ==
    {[layers |-> r.layers,
      detached |-> SetToSeq(PreDetached(g)) \o SetToSeq(r.unsatisfied_keys)]
     : r \in SortLoop(g, <<FirstLayer(g)>>, FirstLayer(g), {})}

-----------------------------------------------------------------------------
(* Values, errors and the syntax tree: src/src/value/mod.rs,                 *)
(* src/src/error/mod.rs, src/src/parser/ast.rs.  A Number is an f64 in the   *)
(* source; the formulas of the model only produce integers.                  *)

ValueNumber(n) == [t |-> "Number", v |-> n]
ValueString(str) == [t |-> "String", v |-> str]
ValueBool(b) == [t |-> "Bool", v |-> b]

\* Value::as_bool
as_bool(val) == IF val.t = "Bool" THEN <<val.v>> ELSE <<>>

\* Value::get: the textual form of a value
ValueGet(val) ==
    IF val.t = "String" THEN val.v
    ELSE IF val.t = "Number" THEN ToString(val.v)
    ELSE IF val.v THEN "true" ELSE "false"

\* CalculatorError: a kind and its message
CalculatorError(kind, msg) == [kind |-> kind, msg |-> msg]

ExprNumber(n) == [op |-> "Number", v |-> n]
ExprString(str) == [op |-> "String", v |-> str]
ExprBool(b) == [op |-> "Bool", b |-> b]
Identifier(name) == [op |-> "Identifier", name |-> name]
Add(l, r) == [op |-> "Add", left |-> l, right |-> r]
Subtract(l, r) == [op |-> "Subtract", left |-> l, right |-> r]
Multiply(l, r) == [op |-> "Multiply", left |-> l, right |-> r]
Divide(l, r) == [op |-> "Divide", left |-> l, right |-> r]
Equal(l, r) == [op |-> "Equal", left |-> l, right |-> r]
NotEqual(l, r) == [op |-> "NotEqual", left |-> l, right |-> r]
And(l, r) == [op |-> "And", left |-> l, right |-> r]
Or(l, r) == [op |-> "Or", left |-> l, right |-> r]
Not(e) == [op |-> "Not", expr |-> e]
UnaryMinus(e) == [op |-> "UnaryMinus", expr |-> e]
FunctionCall(name, args) == [op |-> "FunctionCall", name |-> name, args |-> args]
GetOutputFrom(e) == [op |-> "GetOutputFrom", expr |-> e]

Return(e) == [stmt |-> "Return", expr |-> e]
\* else_ifs is a sequence of <<condition, block>>; else_block is <<>> or <<block>>
If(condition, then_block, else_ifs, else_block) ==
    [stmt |-> "If", condition |-> condition, then_block |-> then_block,
     else_ifs |-> else_ifs, else_block |-> else_block]

\* a body the parser rejects: the text `return 1 +`
Unparsable == [stmt |-> "Unparsable"]

ErrorStmt(e) == [stmt |-> "Error", expr |-> e]

-----------------------------------------------------------------------------
(* Function identifiers, src/src/function/mod.rs.  A name is a sequence of  *)
(* one-character strings.                                                    *)

UpperChars == <<"A","B","C","D","E","F","G","H","I","J","K","L","M",
                "N","O","P","Q","R","S","T","U","V","W","X","Y","Z">>
LowerChars == <<"a","b","c","d","e","f","g","h","i","j","k","l","m",
                "n","o","p","q","r","s","t","u","v","w","x","y","z">>

is_uppercase(ch) == ch \in Range(UpperChars)
is_lowercase(ch) == ch \in Range(LowerChars)
to_lowercase(ch) ==
    IF is_uppercase(ch)
    THEN LowerChars[CHOOSE i \in DOMAIN UpperChars : UpperChars[i] = ch]
    ELSE ch

\* to_snake_case: an upper-case letter is lowered, with an underscore before
\* it when it is not the first character and the previous or the next
\* character is lower case
RECURSIVE SnakeFrom(_, _)
SnakeFrom(chars, i) ==
    IF i > Len(chars) THEN <<>>
    ELSE LET ch == chars[i]
             prev_is_lower == i > 1 /\ is_lowercase(chars[i - 1])
             next_is_lower == i + 1 <= Len(chars) /\ is_lowercase(chars[i + 1])
         IN (IF is_uppercase(ch)
             THEN (IF i > 1 /\ (prev_is_lower \/ next_is_lower) THEN <<"_">> ELSE <<>>)
                  \o <<to_lowercase(ch)>>
             ELSE <<ch>>)
            \o SnakeFrom(chars, i + 1)

to_snake_case(chars) == SnakeFrom(chars, 1)

\* build_function_id: format!("{}_{}", to_snake_case(name), num_args); the
\* pair stands for the formatted text (the text determines both parts, the
\* count being the digits after the last underscore)
build_function_id(name, num_args) == <<to_snake_case(name), num_args>>

\* The Function of the crate's documentation: "double", one argument
DoubleFunction ==
    [name |-> <<"d","o","u","b","l","e">>, num_args |-> 1]

\* DoubleFunction::execute
DoubleExecute(params) ==
    IF params[1].t = "Number"
    THEN [ok |-> TRUE, v |-> ValueNumber(params[1].v * 2)]
    ELSE [ok |-> FALSE, v |-> CalculatorError("TypeError", "Expected number")]

\* the function of two arguments of the documentation of the Function trait
AddFunction ==
    [name |-> <<"a","d","d">>, num_args |-> 2]

\* AddFunction::execute
AddExecute(params) ==
    IF params[1].t = "Number" /\ params[2].t = "Number"
    THEN [ok |-> TRUE, v |-> ValueNumber(params[1].v + params[2].v)]
    ELSE [ok |-> FALSE, v |-> CalculatorError("TypeError", "Expected numbers")]

\* `function.execute(&param_values)` on the registered function object f
FunctionExecute(f, params) ==
    IF f.name = AddFunction.name THEN AddExecute(params) ELSE DoubleExecute(params)

-----------------------------------------------------------------------------
(* The evaluator, src/src/parser/evaluator.rs.                               *)
(*                                                                           *)
(* An evaluation runs on a worker thread of the layer.  The variable cache,  *)
(* the formula-result cache and the registry do not change while a layer is  *)
(* evaluated (execute holds &mut self), but the function-result cache is     *)
(* read and written by all workers of the layer.  Each access to it is one   *)
(* atomic step (the RwLock); c.log holds the accesses this evaluation has    *)
(* made so far: <<v>> or <<>> for what a get returned, <<>> for a set done.  *)
(* The evaluation is replayed over the log and stops at the first access     *)
(* that is not in it: st = "get" or "set" names the access to make next.     *)
(* s.i counts the accesses consumed, s.rd records what get_output_from read, *)
(* s.inv the function ids whose Function::execute returned Err (a call that  *)
(* returns Ok is followed by the set access).                                *)

ResOk(v, s) == [st |-> "ok", v |-> v, s |-> s]
ResErr(e, s) == [st |-> "err", v |-> e, s |-> s]
ResGet(key, s) == [st |-> "get", v |-> key, s |-> s]
ResSet(key, val, s) == [st |-> "set", v |-> <<key, val>>, s |-> s]

\* cache.get(key): Option<Value> as <<>> or <<v>>
CacheGet(cache, key) == IF key \in DOMAIN cache THEN <<cache[key]>> ELSE <<>>

RECURSIVE evaluate_expr(_, _, _)
RECURSIVE EvalPair(_, _, _)
RECURSIVE EvalArgs(_, _, _, _, _)

\* the same with the right operand of `and` and `or` skipped when the left
\* one decides
EvalPairShortCircuit(e, c, s) ==
    LET l == evaluate_expr(e.left, c, s)
    IN IF l.st # "ok" THEN l
       ELSE IF /\ l.v.t = "Bool"
               /\ \/ (e.op = "And" /\ ~l.v.v)
                  \/ (e.op = "Or" /\ l.v.v)
       THEN ResOk(<<l.v, l.v>>, l.s)
       ELSE LET r == evaluate_expr(e.right, c, l.s)
            IN IF r.st # "ok" THEN r ELSE ResOk(<<l.v, r.v>>, r.s)

\* `let l = self.evaluate_expr(left)?; let r = self.evaluate_expr(right)?;`
EvalPair(e, c, s) ==
    LET l == evaluate_expr(e.left, c, s)
    IN IF l.st # "ok" THEN l
       ELSE LET r == evaluate_expr(e.right, c, l.s)
            IN IF r.st # "ok" THEN r ELSE ResOk(<<l.v, r.v>>, r.s)

\* the same loop walking the arguments from the last to the first
RECURSIVE EvalArgsFromRight(_, _, _, _, _)
EvalArgsFromRight(args, k, c, s, param_values) ==
    IF k > Len(args) THEN ResOk(param_values, s)
    ELSE LET a == evaluate_expr(args[Len(args) + 1 - k], c, s)
         IN IF a.st # "ok" THEN a
            ELSE EvalArgsFromRight(args, k + 1, c, a.s, <<a.v>> \o param_values)

\* `for arg in args { param_values.push(self.evaluate_expr(arg)?); }`
EvalArgs(args, k, c, s, param_values) ==
    IF k > Len(args) THEN ResOk(param_values, s)
    ELSE LET a == evaluate_expr(args[k], c, s)
         IN IF a.st # "ok" THEN a
            ELSE EvalArgs(args, k + 1, c, a.s, Append(param_values, a.v))

NumericOp(op, a, b) ==
    CASE op = "Subtract" -> a - b
      [] op = "Multiply" -> a * b

NumericMessage(op) ==
    CASE op = "Subtract" -> "Subtraction requires numbers"
      [] op = "Multiply" -> "Multiplication requires numbers"

\* get_output_from with the number 0 for a name that has no result
EvalGetOutputFromOrZero(e, c, s) ==
    LET formula_name == evaluate_expr(e.expr, c, s)
    IN IF formula_name.st # "ok" THEN formula_name
       ELSE IF formula_name.v.t = "String"
       THEN LET name == formula_name.v.v
                got == CacheGet(c.formula_result_cache, name)
            IN IF got = <<>>
               THEN ResOk(ValueNumber(0), formula_name.s)
               ELSE ResOk(got[1], [formula_name.s EXCEPT !.rd = MapInsert(@, name, got[1])])
       ELSE ResErr(CalculatorError("TypeError", "GetOutputFrom requires string"),
                   formula_name.s)

\* Expr::GetOutputFrom
EvalGetOutputFrom(e, c, s) ==
    LET formula_name == evaluate_expr(e.expr, c, s)
    IN IF formula_name.st # "ok" THEN formula_name
       ELSE IF formula_name.v.t = "String"
       THEN LET name == formula_name.v.v
                got == CacheGet(c.formula_result_cache, name)
            IN IF got = <<>>
               THEN ResErr(CalculatorError("FormulaNotFound", name), formula_name.s)
               ELSE ResOk(got[1], [formula_name.s EXCEPT !.rd = MapInsert(@, name, got[1])])
       ELSE ResErr(CalculatorError("TypeError", "GetOutputFrom requires string"),
                   formula_name.s)

\* a function call that goes on to its arguments and to the function also
\* when the lookup found an entry
EvalFunctionCallUncached(e, c, s) ==
    LET function_id == build_function_id(e.name, Len(e.args))
    IN IF s.i + 1 > Len(c.log) THEN ResGet(function_id, s)
       ELSE
       LET s1 == [s EXCEPT !.i = @ + 1]
       IN IF function_id \notin DOMAIN c.function_cache
          THEN ResErr(CalculatorError("FunctionNotFound", function_id), s1)
          ELSE
          LET function == c.function_cache[function_id]
              params == EvalArgs(e.args, 1, c, s1, <<>>)
          IN IF params.st # "ok" THEN params
             ELSE LET result == FunctionExecute(function, params.v)
                  IN IF ~result.ok
                     THEN ResErr(result.v,
                                 [params.s EXCEPT !.inv = Append(@, function_id)])
                     ELSE IF params.s.i + 1 > Len(c.log)
                     THEN ResSet(function_id, result.v, params.s)
                     ELSE ResOk(result.v, [params.s EXCEPT !.i = @ + 1])

\* Expr::FunctionCall
EvalFunctionCall(e, c, s) ==
    LET function_id == build_function_id(e.name, Len(e.args))
    IN IF s.i + 1 > Len(c.log) THEN ResGet(function_id, s)
       ELSE
       LET cached == c.log[s.i + 1]
           s1 == [s EXCEPT !.i = @ + 1]
       IN IF cached # <<>> THEN ResOk(cached[1], s1)
          ELSE IF function_id \notin DOMAIN c.function_cache
          THEN ResErr(CalculatorError("FunctionNotFound", function_id), s1)
          ELSE
          LET function == c.function_cache[function_id]
              params == EvalArgs(e.args, 1, c, s1, <<>>)
          IN IF params.st # "ok" THEN params
             ELSE LET result == FunctionExecute(function, params.v)
                  IN IF ~result.ok
                     THEN ResErr(result.v,
                                 [params.s EXCEPT !.inv = Append(@, function_id)])
                     ELSE IF params.s.i + 1 > Len(c.log)
                     THEN ResSet(function_id, result.v, params.s)
                     ELSE ResOk(result.v, [params.s EXCEPT !.i = @ + 1])

\* Evaluator::evaluate_expr (the operators and built-ins the formulas of the
\* model use)
evaluate_expr(e, c, s) ==
    CASE e.op = "Number" -> ResOk(ValueNumber(e.v), s)
      [] e.op = "String" -> ResOk(ValueString(e.v), s)
      [] e.op = "Bool" -> ResOk(ValueBool(e.b), s)
      [] e.op = "Identifier" ->
            IF e.name \in DOMAIN c.variable_cache
            THEN ResOk(c.variable_cache[e.name], s)
            ELSE ResErr(CalculatorError("VariableNotFound", e.name), s)
      [] e.op = "Add" ->
            LET p == EvalPair(e, c, s)
            IN IF p.st # "ok" THEN p
               ELSE IF p.v[1].t = "Number" /\ p.v[2].t = "Number"
               THEN ResOk(ValueNumber(p.v[1].v + p.v[2].v), p.s)
               ELSE ResOk(ValueString(ValueGet(p.v[1]) \o ValueGet(p.v[2])), p.s)
      [] e.op \in {"Subtract", "Multiply"} ->
            LET p == EvalPair(e, c, s)
            IN IF p.st # "ok" THEN p
               ELSE IF p.v[1].t = "Number" /\ p.v[2].t = "Number"
               THEN ResOk(ValueNumber(NumericOp(e.op, p.v[1].v, p.v[2].v)), p.s)
               ELSE ResErr(CalculatorError("TypeError", NumericMessage(e.op)), p.s)
      [] e.op = "Divide" ->
            LET p == EvalPair(e, c, s)
            IN IF p.st # "ok" THEN p
               ELSE IF p.v[1].t = "Number" /\ p.v[2].t = "Number"
               THEN IF p.v[2].v = 0
                    THEN ResErr(CalculatorError("DivisionByZero", ""), p.s)
                    ELSE ResOk(ValueNumber(p.v[1].v \div p.v[2].v), p.s)
               ELSE ResErr(CalculatorError("TypeError", "Division requires numbers"), p.s)
      [] e.op = "Equal" ->
            LET p == EvalPair(e, c, s)
            IN IF p.st # "ok" THEN p ELSE ResOk(ValueBool(p.v[1] = p.v[2]), p.s)
      [] e.op = "NotEqual" ->
            LET p == EvalPair(e, c, s)
            IN IF p.st # "ok" THEN p ELSE ResOk(ValueBool(p.v[1] # p.v[2]), p.s)
      [] e.op = "And" ->
            LET p == EvalPair(e, c, s)
            IN IF p.st # "ok" THEN p
               ELSE IF p.v[1].t = "Bool" /\ p.v[2].t = "Bool"
               THEN ResOk(ValueBool(p.v[1].v /\ p.v[2].v), p.s)
               ELSE ResErr(CalculatorError("TypeError", "Logical AND requires booleans"), p.s)
      [] e.op = "Or" ->
            LET p == EvalPair(e, c, s)
            IN IF p.st # "ok" THEN p
               ELSE IF p.v[1].t = "Bool" /\ p.v[2].t = "Bool"
               THEN ResOk(ValueBool(p.v[1].v \/ p.v[2].v), p.s)
               ELSE ResErr(CalculatorError("TypeError", "Logical OR requires booleans"), p.s)
      [] e.op = "Not" ->
            LET val == evaluate_expr(e.expr, c, s)
            IN IF val.st # "ok" THEN val
               ELSE IF val.v.t = "Bool" THEN ResOk(ValueBool(~val.v.v), val.s)
               ELSE ResErr(CalculatorError("TypeError", "Logical NOT requires boolean"), val.s)
      [] e.op = "UnaryMinus" ->
            LET val == evaluate_expr(e.expr, c, s)
            IN IF val.st # "ok" THEN val
               ELSE IF val.v.t = "Number" THEN ResOk(ValueNumber(0 - val.v.v), val.s)
               ELSE ResErr(CalculatorError("TypeError", "Unary minus requires number"), val.s)
      [] e.op = "GetOutputFrom" -> EvalGetOutputFrom(e, c, s)
      [] e.op = "FunctionCall" -> EvalFunctionCall(e, c, s)

RECURSIVE evaluate_statement(_, _, _)
RECURSIVE EvalElseIfs(_, _, _, _)

\* the same loop taking an else-if condition that is no boolean for false
RECURSIVE EvalElseIfsLenient(_, _, _, _)
EvalElseIfsLenient(stmt, k, c, s) ==
    IF k > Len(stmt.else_ifs)
    THEN IF stmt.else_block # <<>>
         THEN evaluate_statement(stmt.else_block[1], c, s)
         ELSE ResErr(CalculatorError("EvalError", "No matching condition"), s)
    ELSE LET else_if_val == evaluate_expr(stmt.else_ifs[k][1], c, s)
         IN IF else_if_val.st # "ok" THEN else_if_val
            ELSE LET else_if_bool == as_bool(else_if_val.v)
                 IN IF else_if_bool # <<>> /\ else_if_bool[1]
                    THEN evaluate_statement(stmt.else_ifs[k][2], c, else_if_val.s)
                    ELSE EvalElseIfsLenient(stmt, k + 1, c, else_if_val.s)

\* the `for (else_if_cond, else_if_block) in else_ifs` loop and what follows it
EvalElseIfs(stmt, k, c, s) ==
    IF k > Len(stmt.else_ifs)
    THEN IF stmt.else_block # <<>>
         THEN evaluate_statement(stmt.else_block[1], c, s)
         ELSE ResErr(CalculatorError("EvalError", "No matching condition"), s)
    ELSE LET else_if_val == evaluate_expr(stmt.else_ifs[k][1], c, s)
         IN IF else_if_val.st # "ok" THEN else_if_val
            ELSE LET else_if_bool == as_bool(else_if_val.v)
                 IN IF else_if_bool = <<>>
                    THEN ResErr(CalculatorError("TypeError",
                                    "Else-if condition must be boolean"), else_if_val.s)
                    ELSE IF else_if_bool[1]
                    THEN evaluate_statement(stmt.else_ifs[k][2], c, else_if_val.s)
                    ELSE EvalElseIfs(stmt, k + 1, c, else_if_val.s)

\* Evaluator::evaluate_statement
evaluate_statement(stmt, c, s) ==
    CASE stmt.stmt = "Return" -> evaluate_expr(stmt.expr, c, s)
      [] stmt.stmt = "If" ->
            LET cond_val == evaluate_expr(stmt.condition, c, s)
            IN IF cond_val.st # "ok" THEN cond_val
               ELSE LET cond_bool == as_bool(cond_val.v)
                    IN IF cond_bool = <<>>
                       THEN ResErr(CalculatorError("TypeError",
                                       "Condition must be boolean"), cond_val.s)
                       ELSE IF cond_bool[1]
                       THEN evaluate_statement(stmt.then_block, c, cond_val.s)
                       ELSE EvalElseIfs(stmt, 1, c, cond_val.s)
      [] stmt.stmt = "Error" ->
            LET val == evaluate_expr(stmt.expr, c, s)
            IN IF val.st # "ok" THEN val
               ELSE ResErr(CalculatorError("ErrorCall",
                     (IF val.v.t = "String" THEN "Error function called with message: "
                      ELSE IF val.v.t = "Number" THEN "Error function called with code: "
                      ELSE "Error function called with value: ") \o ValueGet(val.v)), val.s)

\* Evaluator::evaluate
evaluate(program, c) ==
    evaluate_statement(program, c, [i |-> 0, rd |-> EmptyMap, inv |-> <<>>])

-----------------------------------------------------------------------------
(* Graph notions the claims are stated with. *)

RECURSIVE ReachFrom(_, _, _)
\* the keys reachable from the keys of frontier along declared edges
ReachFrom(g, frontier, seen) ==
    LET next == UNION {IF k \in DOMAIN g.outgoing_edges THEN g.outgoing_edges[k] ELSE {}
                       : k \in frontier} \ seen
    IN IF next = {} THEN seen ELSE ReachFrom(g, next, seen \cup next)

\* the keys key depends on, directly or transitively
DepsPlus(g, key) == ReachFrom(g, {key}, {})

OnCycle(g, key) == key \in DepsPlus(g, key)

Acyclic(g) == \A k \in DOMAIN g.outgoing_edges : ~OnCycle(g, k)

AllDepsPresent(g) ==
    \A k \in DOMAIN g.outgoing_edges : g.outgoing_edges[k] \subseteq DOMAIN g.outgoing_edges

RECURSIVE Depth(_, _)
\* length of the longest dependency path from key to a node without
\* dependencies (acyclic graphs with all dependencies present)
Depth(g, key) ==
    IF g.outgoing_edges[key] = {} THEN 0
    ELSE LET ds == {Depth(g, d) : d \in g.outgoing_edges[key]}
         IN 1 + CHOOSE m \in ds : \A x \in ds : x <= m

LayersOf(lys, key) == {i \in 1..Len(lys) : key \in lys[i]}

InSomeLayer(lys, key) == LayersOf(lys, key) # {}

EdgeCount(g) ==
    LET keys == SetToSeq(DOMAIN g.outgoing_edges)
        sum[i \in 0..Len(keys)] ==
            IF i = 0 THEN 0 ELSE sum[i - 1] + Cardinality(g.outgoing_edges[keys[i]])
    IN sum[Len(keys)]

-----------------------------------------------------------------------------
(* The sort specification: graphs built with add_node, then sorted. *)

KeyList == <<"a", "b", "c", "d", "e", "f">>

NodeKeys == {KeyList[i] : i \in 1..MaxNodes}

\* a key that is never a node
MissingKey == "m"

EngineInit ==
    /\ variable_cache = EmptyMap
    /\ formula_result_cache = EmptyMap
    /\ function_cache = EmptyMap
    /\ function_result_cache = EmptyMap
    /\ errors = EmptyMap
    /\ batch = <<>>
    /\ ret = "None"
    /\ li = 0
    /\ wlog = EmptyMap
    /\ results = EmptyMap
    /\ nexec = 0
    /\ evals = EmptyMap
    /\ observed = EmptyMap
    /\ engineNo = 1
    /\ first = EmptyMap
    /\ failed = {}
    /\ invoked = EmptyMap
    /\ nclear = 0
    /\ unsatisfied = {}
    /\ returned = <<>>

InitSort ==
    /\ graph = NewGraph
    /\ layers = <<>>
    /\ detached = <<>>
    /\ pc = "build"
    /\ EngineInit

\* graph.add_node(key, payload, outgoing) on a key that is not yet a node: Ok
AddNode(key, outgoing) ==
    /\ pc = "build"
    /\ add_node(graph, key, key, outgoing).ok
    /\ EdgeCount(graph) + Len(outgoing) <= MaxEdges
    /\ graph' = add_node(graph, key, key, outgoing).g
    /\ ret' = "Ok"
    /\ UNCHANGED <<layers, detached, pc>>
    /\ UNCHANGED sortFrame

\* graph.add_node on a key that is already a node: Err, the graph is unchanged
AddNodeAgain(key, outgoing) ==
    /\ pc = "build"
    /\ ~add_node(graph, key, key, outgoing).ok
    /\ graph' = add_node(graph, key, key, outgoing).g
    /\ ret' = "Err"
    /\ UNCHANGED <<layers, detached, pc>>
    /\ UNCHANGED sortFrame

\* graph.topological_sort()
Sort ==
    /\ pc = "build"
    /\ \E r \in topological_sort(graph) :
          /\ layers' = r.layers
          /\ detached' = r.detached
    /\ pc' = "sorted"
    /\ UNCHANGED <<graph, ret>>
    /\ UNCHANGED sortFrame

NextSort ==
    \/ \E key \in NodeKeys, S \in SUBSET (NodeKeys \cup {MissingKey}) :
          AddNode(key, SetToSeq(S))
    \/ \E key \in NodeKeys : AddNodeAgain(key, <<>>)
    \/ Sort

SpecSort == InitSort /\ [][NextSort]_vars

\* what the steps of the sort leave alone
sortStepFrame == <<graph, ret, variable_cache, formula_result_cache, function_cache,
                   function_result_cache, errors, batch, li, wlog, results,
                   nexec, evals, observed, engineNo, first, failed, invoked,
                   nclear, returned>>

\* no run of the loop needs more layers than this: the guard of SortIterate
\* keeps the state space finite when the loop is changed into one that does
\* not stop
LayerCap == MaxNodes + 2

\* topological_sort up to the `while`: the first loop and the two sets
SortStart ==
    /\ pc = "build"
    /\ layers' = <<FirstLayer(graph)>>
    /\ detached' = SetToSeq(PreDetached(graph))
    /\ unsatisfied' = {}
    /\ pc' = "sorting"
    /\ UNCHANGED sortStepFrame

\* one iteration of `while !layers.last().unwrap().is_empty()`;
\* satisfied_keys is the union of the layers pushed so far
SortIterate ==
    /\ pc = "sorting"
    /\ layers[Len(layers)] # {}
    /\ Len(layers) < LayerCap
    /\ \E r \in ProcessCandidates(graph,
                                  Candidates(graph, layers[Len(layers)], unsatisfied),
                                  UNION Range(layers), {}, {}) :
          /\ layers' = Append(layers, r.current_level)
          /\ unsatisfied' = r.unsatisfied_keys
    /\ UNCHANGED <<detached, pc>>
    /\ UNCHANGED sortStepFrame

\* the loop has met an empty layer: `layers.pop()`,
\* `detached.extend(unsatisfied_keys)`, return
SortReturn ==
    /\ pc = "sorting"
    /\ layers[Len(layers)] = {}
    /\ layers' = SubSeq(layers, 1, Len(layers) - 1)
    /\ detached' = detached \o SetToSeq(unsatisfied)
    /\ unsatisfied' = {}
    /\ pc' = "sorted"
    /\ UNCHANGED sortStepFrame

NextSortSteps ==
    \/ \E key \in NodeKeys, S \in SUBSET (NodeKeys \cup {MissingKey}) :
          AddNode(key, SetToSeq(S))
    \/ SortStart
    \/ SortIterate
    \/ SortReturn

\* topological_sort runs in the calling thread: once called, it takes its
\* next step
SpecSortSteps ==
    /\ InitSort
    /\ [][NextSortSteps]_vars
    /\ WF_vars(SortIterate)
    /\ WF_vars(SortReturn)

-----------------------------------------------------------------------------
(* Formulas, src/src/formula/mod.rs.  The body of a formula of the model is *)
(* the Program its text parses to (the text is given beside each formula of *)
(* the pool), written the way the dependency pattern matches it.            *)

RECURSIVE DependsOnExpr(_)
RECURSIVE DependsOnArgs(_, _)
RECURSIVE DependsOnStmt(_)
RECURSIVE DependsOnElseIfs(_, _)

DependsOnArgs(args, k) ==
    IF k > Len(args) THEN <<>>
    ELSE DependsOnExpr(args[k]) \o DependsOnArgs(args, k + 1)

\* the occurrences of get_output_from('NAME') in an expression, in order
DependsOnExpr(e) ==
    CASE e.op \in {"Number", "String", "Bool", "Identifier"} -> <<>>
      [] e.op \in {"Not", "UnaryMinus"} -> DependsOnExpr(e.expr)
      [] e.op = "GetOutputFrom" ->
            IF e.expr.op = "String" /\ e.expr.v # "" THEN <<e.expr.v>>
            ELSE DependsOnExpr(e.expr)
      [] e.op = "FunctionCall" -> DependsOnArgs(e.args, 1)
      [] OTHER -> DependsOnExpr(e.left) \o DependsOnExpr(e.right)

DependsOnElseIfs(else_ifs, k) ==
    IF k > Len(else_ifs) THEN <<>>
    ELSE DependsOnExpr(else_ifs[k][1]) \o DependsOnStmt(else_ifs[k][2])
         \o DependsOnElseIfs(else_ifs, k + 1)

DependsOnStmt(stmt) ==
    CASE stmt.stmt = "Unparsable" -> <<>>
      [] stmt.stmt = "If" ->
            DependsOnExpr(stmt.condition) \o DependsOnStmt(stmt.then_block)
            \o DependsOnElseIfs(stmt.else_ifs, 1)
            \o (IF stmt.else_block = <<>> THEN <<>> ELSE DependsOnStmt(stmt.else_block[1]))
      [] OTHER -> DependsOnExpr(stmt.expr)

\* Formula::build_depends_on: every get_output_from('NAME') of the body, in
\* order, duplicates kept
build_depends_on(body) == DependsOnStmt(body)

\* Formula::new
Formula(name, body) ==
    [name |-> name, body |-> body, depends_on |-> build_depends_on(body)]

-----------------------------------------------------------------------------
(* The engine, src/src/engine.rs *)

\* the error-map entry of a detached formula
DetachedMessage(formula_name) ==
    [text |-> "Could not resolve dependency path for formula", name |-> formula_name]

\* the error-map entry of a formula whose lexing, parsing or evaluation failed
ExecutionMessage(formula_name, e) ==
    [text |-> "Error executing formula", name |-> formula_name, error |-> e]

\* `for formula in &formulas { graph.add_node(...)? }`
RECURSIVE AddFormulas(_, _, _)
AddFormulas(formulas, k, g) ==
    IF k > Len(formulas) THEN [ok |-> TRUE, g |-> g]
    ELSE LET r == add_node(g, formulas[k].name, formulas[k], formulas[k].depends_on)
         IN IF ~r.ok THEN r ELSE AddFormulas(formulas, k + 1, r.g)

\* the same loop stopping one entry short
RECURSIVE InsertDetachedShort(_, _, _)
InsertDetachedShort(errs, det, k) ==
    IF k >= Len(det) THEN errs
    ELSE InsertDetachedShort(MapInsert(errs, det[k], DetachedMessage(det[k])), det, k + 1)

\* `for formula_name in detached { self.errors.insert(...) }`
RECURSIVE InsertDetached(_, _, _)
InsertDetached(errs, det, k) ==
    IF k > Len(det) THEN errs
    ELSE InsertDetached(MapInsert(errs, det[k], DetachedMessage(det[k])), det, k + 1)

\* workers for every formula of the graph, whatever the layer
StartLayerAll(g, layer) == [formula_name \in DOMAIN g.data |-> <<>>]

\* the workers of a layer: `layer.par_iter().filter_map(|n| graph.get(n)...)`,
\* each starting with no cache access made
StartLayer(g, layer) ==
    [formula_name \in {n \in layer : n \in DOMAIN g.data} |-> <<>>]

\* an evaluator that is handed an empty variable cache
EvaluatorNoVariables(log) ==
    [variable_cache |-> EmptyMap,
     formula_result_cache |-> formula_result_cache,
     function_cache |-> function_cache,
     log |-> log]

\* the evaluator built by try_execute_formula: clones of the four cache
\* handles, which share the engine's maps
Evaluator(log) ==
    [variable_cache |-> variable_cache,
     formula_result_cache |-> formula_result_cache,
     function_cache |-> function_cache,
     log |-> log]

\* Engine::try_execute_formula: the `?` after Parser::new and parser.parse
\* returns the parse error, else the program is evaluated
try_execute_formula(formula, log) ==
    IF formula.body = Unparsable
    THEN ResErr(CalculatorError("ParseError", "Unexpected token: Eof"),
                [i |-> 0, rd |-> EmptyMap, inv |-> <<>>])
    ELSE evaluate(formula.body, Evaluator(log))

\* Engine::set_variable
SetVariable(name, value) ==
    /\ pc = "idle"
    /\ variable_cache' = MapInsert(variable_cache, name, value)
    /\ UNCHANGED <<graph, layers, detached, pc, formula_result_cache, function_cache,
                   function_result_cache, errors, batch, ret, li, wlog, results,
                   nexec, evals, observed, engineNo, first, failed, invoked,
                   nclear, unsatisfied, returned>>

\* Engine::register_function
RegisterFunction(function) ==
    /\ pc = "idle"
    /\ function_cache' =
          MapInsert(function_cache,
                    build_function_id(function.name, function.num_args), function)
    /\ UNCHANGED <<graph, layers, detached, pc, variable_cache, formula_result_cache,
                   function_result_cache, errors, batch, ret, li, wlog, results,
                   nexec, evals, observed, engineNo, first, failed, invoked,
                   nclear, unsatisfied, returned>>

\* Engine::execute up to the first parallel section: build the graph (Err on
\* a duplicate name), sort it, record the detached formulas, start layer 0
ExecuteCall(formulas) ==
    /\ pc = "idle"
    /\ batch' = formulas
    /\ nexec' = nexec + 1
    /\ evals' = EmptyMap
    /\ observed' = EmptyMap
    /\ failed' = {}
    /\ LET built == AddFormulas(formulas, 1, NewGraph)
       IN IF ~built.ok
          THEN /\ ret' = "Err"
               /\ graph' = NewGraph
               /\ layers' = <<>>
               /\ detached' = <<>>
               /\ UNCHANGED <<pc, errors, li, wlog, results>>
          ELSE \E sorted \in topological_sort(built.g) :
               /\ graph' = built.g
               /\ layers' = sorted.layers
               /\ detached' = sorted.detached
               /\ errors' = InsertDetached(errors, sorted.detached, 1)
               /\ results' = EmptyMap
               /\ IF sorted.layers = <<>>
                  THEN /\ pc' = "idle"
                       /\ ret' = "Ok"
                       /\ li' = 0
                       /\ wlog' = EmptyMap
                  ELSE /\ pc' = "running"
                       /\ ret' = "None"
                       /\ li' = 1
                       /\ wlog' = StartLayer(built.g, sorted.layers[1])
    /\ UNCHANGED <<formula_result_cache, function_cache, function_result_cache,
                   engineNo, first, invoked, nclear, unsatisfied, returned>>

\* Engine::execute called by the host: the variable cache is as the host's
\* set_variable calls left it
Execute(formulas) ==
    /\ ExecuteCall(formulas)
    /\ UNCHANGED variable_cache

Running(formula_name) ==
    /\ pc = "running"
    /\ formula_name \in DOMAIN wlog
    /\ formula_name \notin DOMAIN results

\* Function::execute calls, added to the count kept per function id
RECURSIVE CountInvoked(_, _, _)
CountInvoked(count, inv, k) ==
    IF k > Len(inv) THEN count
    ELSE CountInvoked(MapInsert(count, inv[k],
                                IF inv[k] \in DOMAIN count THEN count[inv[k]] + 1 ELSE 1),
                      inv, k + 1)

\* a lookup that never finds an entry
WorkerCacheGetMiss(formula_name) ==
    /\ Running(formula_name)
    /\ LET r == try_execute_formula(graph.data[formula_name], wlog[formula_name])
       IN /\ r.st = "get"
          /\ wlog' = [wlog EXCEPT ![formula_name] = Append(@, <<>>)]
    /\ UNCHANGED <<graph, layers, detached, pc, variable_cache, formula_result_cache,
                   function_cache, function_result_cache, errors, batch, ret, li,
                   results, nexec, evals, observed, engineNo, first, failed,
                   invoked, nclear, unsatisfied, returned>>

\* a worker of the layer reaches `self.function_result_cache.get(&function_id)`
WorkerCacheGet(formula_name) ==
    /\ Running(formula_name)
    /\ LET r == try_execute_formula(graph.data[formula_name], wlog[formula_name])
       IN /\ r.st = "get"
          /\ wlog' = [wlog EXCEPT ![formula_name] =
                         Append(@, CacheGet(function_result_cache, r.v))]
    /\ UNCHANGED <<graph, layers, detached, pc, variable_cache, formula_result_cache,
                   function_cache, function_result_cache, errors, batch, ret, li,
                   results, nexec, evals, observed, engineNo, first, failed,
                   invoked, nclear, unsatisfied, returned>>

\* a worker of the layer reaches `self.function_result_cache.set(function_id, result)`
WorkerCacheSet(formula_name) ==
    /\ Running(formula_name)
    /\ LET r == try_execute_formula(graph.data[formula_name], wlog[formula_name])
       IN /\ r.st = "set"
          /\ function_result_cache' = MapInsert(function_result_cache, r.v[1], r.v[2])
          /\ wlog' = [wlog EXCEPT ![formula_name] = Append(@, <<>>)]
          /\ invoked' = CountInvoked(invoked, <<r.v[1]>>, 1)
    /\ UNCHANGED <<graph, layers, detached, pc, variable_cache, formula_result_cache,
                   function_cache, errors, batch, ret, li, results, nexec, evals,
                   observed, engineNo, first, failed, nclear,
                   unsatisfied, returned>>

\* a worker that stores its own result as soon as it has it
WorkerFinishCommitting(formula_name) ==
    /\ Running(formula_name)
    /\ LET r == try_execute_formula(graph.data[formula_name], wlog[formula_name])
       IN /\ r.st \in {"ok", "err"}
          /\ results' = MapInsert(results, formula_name,
                                  [ok |-> r.st = "ok", v |-> r.v, rd |-> r.s.rd])
          /\ invoked' = CountInvoked(invoked, r.s.inv, 1)
          /\ formula_result_cache' =
                IF r.st = "ok" THEN MapInsert(formula_result_cache, formula_name, r.v)
                ELSE formula_result_cache
    /\ evals' = MapInsert(evals, formula_name,
                          IF formula_name \in DOMAIN evals THEN evals[formula_name] + 1 ELSE 1)
    /\ UNCHANGED <<graph, layers, detached, pc, variable_cache, function_cache,
                   function_result_cache, errors, batch, ret, li, wlog, nexec,
                   observed, engineNo, first, failed, nclear,
                   unsatisfied, returned>>

\* a worker of the layer returns from try_execute_formula: its
\* (formula_name, result) is collected
WorkerFinish(formula_name) ==
    /\ Running(formula_name)
    /\ LET r == try_execute_formula(graph.data[formula_name], wlog[formula_name])
       IN /\ r.st \in {"ok", "err"}
          /\ results' = MapInsert(results, formula_name,
                                  [ok |-> r.st = "ok", v |-> r.v, rd |-> r.s.rd])
          /\ invoked' = CountInvoked(invoked, r.s.inv, 1)
    /\ evals' = MapInsert(evals, formula_name,
                          IF formula_name \in DOMAIN evals THEN evals[formula_name] + 1 ELSE 1)
    /\ UNCHANGED <<graph, layers, detached, pc, variable_cache, formula_result_cache,
                   function_cache, function_result_cache, errors, batch, ret, li,
                   wlog, nexec, observed, engineNo, first, failed, nclear,
                   unsatisfied, returned>>

\* a commit loop that gives up at the first failed formula of the layer
RECURSIVE CommitResultsStopping(_, _, _, _)
CommitResultsStopping(cache, errs, names, k) ==
    IF k > Len(names) THEN [formula_result_cache |-> cache, errors |-> errs]
    ELSE LET formula_name == names[k]
             result == results[formula_name]
         IN IF result.ok
            THEN CommitResultsStopping(MapInsert(cache, formula_name, result.v),
                                       errs, names, k + 1)
            ELSE [formula_result_cache |-> cache,
                  errors |-> MapInsert(errs, formula_name,
                                       ExecutionMessage(formula_name, result.v))]

\* a commit loop in which a result removes the error entry of its formula
\* and an error removes its stored result
RECURSIVE CommitResultsReplacing(_, _, _, _)
CommitResultsReplacing(cache, errs, names, k) ==
    IF k > Len(names) THEN [formula_result_cache |-> cache, errors |-> errs]
    ELSE LET formula_name == names[k]
             result == results[formula_name]
         IN IF result.ok
            THEN CommitResultsReplacing(
                    MapInsert(cache, formula_name, result.v),
                    [n \in DOMAIN errs \ {formula_name} |-> errs[n]], names, k + 1)
            ELSE CommitResultsReplacing(
                    [n \in DOMAIN cache \ {formula_name} |-> cache[n]],
                    MapInsert(errs, formula_name,
                              ExecutionMessage(formula_name, result.v)),
                    names, k + 1)

\* `for (formula_name, result) in results`: the names of a layer are distinct,
\* so the order of the loop does not show
RECURSIVE CommitResults(_, _, _, _)
CommitResults(cache, errs, names, k) ==
    IF k > Len(names) THEN [formula_result_cache |-> cache, errors |-> errs]
    ELSE LET formula_name == names[k]
             result == results[formula_name]
         IN IF result.ok
            THEN CommitResults(MapInsert(cache, formula_name, result.v), errs, names, k + 1)
            ELSE CommitResults(cache,
                               MapInsert(errs, formula_name,
                                         ExecutionMessage(formula_name, result.v)),
                               names, k + 1)

\* second half of execute_layer_parallel, after every worker has returned:
\* results and errors are applied one by one; then execute goes on to the
\* next layer, or returns Ok after the last one
CommitLayer ==
    /\ pc = "running"
    /\ DOMAIN results = DOMAIN wlog
    /\ LET done == CommitResults(formula_result_cache, errors, SetToSeq(DOMAIN results), 1)
       IN /\ formula_result_cache' = done.formula_result_cache
          /\ errors' = done.errors
    /\ observed' = [n \in DOMAIN observed \cup {m \in DOMAIN results : results[m].ok} |->
                       IF n \in DOMAIN results /\ results[n].ok
                       THEN results[n].rd ELSE observed[n]]
    /\ failed' = failed \cup {n \in DOMAIN results : ~results[n].ok}
    /\ results' = EmptyMap
    /\ IF li < Len(layers)
       THEN /\ li' = li + 1
            /\ wlog' = StartLayer(graph, layers[li + 1])
            /\ UNCHANGED <<pc, ret>>
       ELSE /\ li' = 0
            /\ wlog' = EmptyMap
            /\ pc' = "idle"
            /\ ret' = "Ok"
    /\ UNCHANGED <<graph, layers, detached, variable_cache, function_cache,
                   function_result_cache, batch, nexec, evals, engineNo, first,
                   invoked, nclear, unsatisfied, returned>>

\* a second engine: Engine::new(), then the host makes the set_variable and
\* register_function calls it made on the first one; what the first engine
\* ended with is kept in `first`
SecondEngine ==
    /\ pc = "idle"
    /\ engineNo = 1
    /\ nexec = 1
    /\ first' = [results |-> formula_result_cache, errors |-> errors, ret |-> ret]
    /\ engineNo' = 2
    /\ formula_result_cache' = EmptyMap
    /\ function_result_cache' = EmptyMap
    /\ errors' = EmptyMap
    /\ nexec' = 0
    /\ ret' = "None"
    /\ evals' = EmptyMap
    /\ observed' = EmptyMap
    /\ graph' = NewGraph
    /\ layers' = <<>>
    /\ detached' = <<>>
    /\ failed' = {}
    /\ invoked' = EmptyMap
    /\ UNCHANGED <<pc, variable_cache, function_cache, batch, li, wlog, results, nclear,
                   unsatisfied, returned>>

\* a clear that empties the registry as well
ClearAll ==
    /\ pc = "idle"
    /\ variable_cache' = EmptyMap
    /\ formula_result_cache' = EmptyMap
    /\ function_cache' = EmptyMap
    /\ function_result_cache' = EmptyMap
    /\ errors' = EmptyMap
    /\ nclear' = nclear + 1
    /\ invoked' = EmptyMap
    /\ UNCHANGED <<graph, layers, detached, pc, batch, ret, li, wlog, results, nexec,
                   evals, observed, engineNo, first, failed,
                   unsatisfied, returned>>

\* Engine::clear: the registry is the one map it leaves alone
Clear ==
    /\ pc = "idle"
    /\ variable_cache' = EmptyMap
    /\ formula_result_cache' = EmptyMap
    /\ function_result_cache' = EmptyMap
    /\ errors' = EmptyMap
    /\ nclear' = nclear + 1
    /\ invoked' = EmptyMap
    /\ UNCHANGED <<graph, layers, detached, pc, function_cache, batch, ret, li, wlog,
                   results, nexec, evals, observed, engineNo, first, failed,
                   unsatisfied, returned>>

-----------------------------------------------------------------------------
(* The formulas the host submits. *)

goF(name) == GetOutputFrom(ExprString(name))

double(arg) == FunctionCall(<<"d","o","u","b","l","e">>, <<arg>>)

FormulaPool == <<
    \* a: return 1
    Formula("a", Return(ExprNumber(1))),
    \* a: return x
    Formula("a", Return(Identifier("x"))),
    \* a: return double(1)
    Formula("a", Return(double(ExprNumber(1)))),
    \* a: return get_output_from('b')
    Formula("a", Return(goF("b"))),
    \* a: return get_output_from('a')
    Formula("a", Return(goF("a"))),
    \* b: return get_output_from('a') + x
    Formula("b", Return(Add(goF("a"), Identifier("x")))),
    \* b: return double(2)
    Formula("b", Return(double(ExprNumber(2)))),
    \* b: return 10 / 0
    Formula("b", Return(Divide(ExprNumber(10), ExprNumber(0)))),
    \* b: return get_output_from('m')
    Formula("b", Return(goF("m"))),
    \* b: return get_output_from('a') + 1
    Formula("b", Return(Add(goF("a"), ExprNumber(1)))),
    \* c: return get_output_from('a') + get_output_from('b')
    Formula("c", Return(Add(goF("a"), goF("b")))),
    \* c: if (get_output_from('b') = get_output_from('a')) then return get_output_from('b') + 10 end
    Formula("c", If(Equal(goF("b"), goF("a")),
                    Return(Add(goF("b"), ExprNumber(10))), <<>>, <<>>)),
    \* c: return get_output_from('b') + get_output_from('b')
    Formula("c", Return(Add(goF("b"), goF("b")))),
    \* c: return 10 / x
    Formula("c", Return(Divide(ExprNumber(10), Identifier("x")))),
    \* b: return 1 +
    Formula("b", Unparsable)
>>

RECURSIVE PickFrom(_, _, _)
\* the elements of pool at the indices of I, in the order of the pool
PickFrom(pool, I, k) ==
    IF k > Len(pool) THEN <<>>
    ELSE (IF k \in I THEN <<pool[k]>> ELSE <<>>) \o PickFrom(pool, I, k + 1)

\* the batches of at most n formulas of pool
Batches(pool, n) ==
    {PickFrom(pool, I, 1) : I \in {J \in SUBSET (1..Len(pool)) : Cardinality(J) <= n}}

VariableValues == {ValueNumber(0), ValueNumber(1)}

Init ==
    /\ graph = NewGraph
    /\ layers = <<>>
    /\ detached = <<>>
    /\ pc = "idle"
    /\ EngineInit

\* A fresh engine is set up (one variable, one function), executes one
\* batch; then a second engine is set up the same way and executes the same
\* batch.
Next ==
    \/ \E value \in VariableValues :
          /\ nexec = 0 /\ engineNo = 1 /\ "x" \notin DOMAIN variable_cache
          /\ SetVariable("x", value)
    \/ /\ nexec = 0 /\ engineNo = 1 /\ function_cache = EmptyMap
       /\ RegisterFunction(DoubleFunction)
    \/ \E formulas \in Batches(FormulaPool, MaxBatch) :
          /\ nexec = 0
          /\ engineNo = 2 => formulas = batch
          /\ Execute(formulas)
    \/ \E formula_name \in DOMAIN wlog : WorkerCacheGet(formula_name)
    \/ \E formula_name \in DOMAIN wlog : WorkerCacheSet(formula_name)
    \/ \E formula_name \in DOMAIN wlog : WorkerFinish(formula_name)
    \/ CommitLayer
    \/ SecondEngine

Spec == Init /\ [][Next]_vars

\* the formulas of the re-execution specification
RerunPool == <<
    \* a: return 1
    Formula("a", Return(ExprNumber(1))),
    \* a: return x
    Formula("a", Return(Identifier("x"))),
    \* b: return get_output_from('a') + x
    Formula("b", Return(Add(goF("a"), Identifier("x")))),
    \* c: if (get_output_from('b') = get_output_from('a')) then return get_output_from('b') + 10 end
    Formula("c", If(Equal(goF("b"), goF("a")),
                    Return(Add(goF("b"), ExprNumber(10))), <<>>, <<>>)),
    \* c: return get_output_from('a') + get_output_from('b')
    Formula("c", Return(Add(goF("a"), goF("b"))))
>>

\* One engine: the host sets the variable and executes batches, several
\* times over, with no clear in between.
NextRerun ==
    \/ \E value \in VariableValues : SetVariable("x", value)
    \/ \E formulas \in Batches(RerunPool, MaxBatch) :
          /\ nexec < MaxExecutes
          /\ Execute(formulas)
    \/ \E formula_name \in DOMAIN wlog : WorkerFinish(formula_name)
    \/ CommitLayer

SpecRerun == Init /\ [][NextRerun]_vars

\* the formulas of the cache specification
CachePool == <<
    \* a: return double(1)
    Formula("a", Return(double(ExprNumber(1)))),
    \* a: return double(double(1))
    Formula("a", Return(double(double(ExprNumber(1))))),
    \* b: return double(2)
    Formula("b", Return(double(ExprNumber(2)))),
    \* b: return double(10 / 0)
    Formula("b", Return(double(Divide(ExprNumber(10), ExprNumber(0))))),
    \* b: return double(x)
    Formula("b", Return(double(Identifier("x")))),
    \* c: return double(get_output_from('a'))
    Formula("c", Return(double(goF("a"))))
>>

\* One engine: the host registers the function, sets the variable (once, and
\* again after a clear), executes batches of formulas that call the function,
\* and clears the engine.
NextCache ==
    \/ /\ "x" \notin DOMAIN variable_cache
       /\ SetVariable("x", ValueNumber(1))
    \/ /\ function_cache = EmptyMap
       /\ RegisterFunction(DoubleFunction)
    \/ \E formulas \in Batches(CachePool, MaxBatch) :
          /\ nexec < MaxExecutes
          /\ Execute(formulas)
    \/ \E formula_name \in DOMAIN wlog : WorkerCacheGet(formula_name)
    \/ \E formula_name \in DOMAIN wlog : WorkerCacheSet(formula_name)
    \/ \E formula_name \in DOMAIN wlog : WorkerFinish(formula_name)
    \/ CommitLayer
    \/ /\ nclear < MaxClears
       /\ Clear

SpecCache == Init /\ [][NextCache]_vars

-----------------------------------------------------------------------------
(* What the host sees, and notions the claims are stated with. *)

\* Engine::get_result
get_result(formula_name) == CacheGet(formula_result_cache, formula_name)

\* Engine::get_errors
get_errors == errors

BatchNames == {batch[i].name : i \in DOMAIN batch}

DistinctNames == \A i, j \in DOMAIN batch : batch[i].name = batch[j].name => i = j

\* the first execute call on a freshly constructed engine has returned Ok
FreshDone == pc = "idle" /\ nexec = 1 /\ ret = "Ok"

RECURSIVE PlainExpr(_)
\* an expression of number literals, + and get_output_from('NAME'): it
\* evaluates successfully whenever the results it reads are present
PlainExpr(e) ==
    CASE e.op = "Number" -> TRUE
      [] e.op = "Add" -> PlainExpr(e.left) /\ PlainExpr(e.right)
      [] e.op = "GetOutputFrom" -> e.expr.op = "String"
      [] OTHER -> FALSE

PlainFormula(f) == f.body.stmt = "Return" /\ PlainExpr(f.body.expr)

\* key lies on a dependency cycle, or depends on a node that does
CycleBound(g, key) ==
    \/ OnCycle(g, key)
    \/ \E d \in DepsPlus(g, key) : d \in DOMAIN g.outgoing_edges /\ OnCycle(g, d)

HasMissingDependency(f) == \E i \in DOMAIN f.depends_on : f.depends_on[i] \notin BatchNames

-----------------------------------------------------------------------------
(* Claims about the layered sort, checked under SpecSort. *)

\* C1: in the layers topological_sort returns, every declared dependency of a
\* node placed in a layer lies in a layer of strictly smaller index, and no
\* two nodes of one layer depend on one another, whatever the order in which
\* the candidates of an iteration are traversed.
C1_LayersRespectDependencies ==
    pc = "sorted" =>
        \A i \in 1..Len(layers) : \A n \in layers[i] :
            \A dep \in graph.outgoing_edges[n] :
                /\ \E j \in 1..(i - 1) : dep \in layers[j]
                /\ dep \notin layers[i]

\* C8: for an acyclic graph in which every declared dependency is a node,
\* topological_sort returns an empty detached list and places every node in
\* some layer.
C8_AcyclicNothingDetached ==
    (pc = "sorted" /\ Acyclic(graph) /\ AllDepsPresent(graph)) =>
        /\ detached = <<>>
        /\ \A k \in DOMAIN graph.outgoing_edges : InSomeLayer(layers, k)

\* an acyclic graph of three nodes with dependencies has been sorted into at
\* least two layers
C8_Witness ==
    /\ pc = "sorted"
    /\ Acyclic(graph) /\ AllDepsPresent(graph)
    /\ Cardinality(DOMAIN graph.outgoing_edges) = 3
    /\ EdgeCount(graph) >= 3
    /\ Len(layers) >= 3
    /\ detached = <<>>

\* C9: for an acyclic graph with all dependencies present, every node appears
\* in exactly the layer whose index is the length of the longest dependency
\* path from it to a node without dependencies (layers counted from 0).
C9_LayerIsLongestPath ==
    (pc = "sorted" /\ Acyclic(graph) /\ AllDepsPresent(graph)) =>
        \A k \in DOMAIN graph.outgoing_edges :
            LayersOf(layers, k) = {Depth(graph, k) + 1}

-----------------------------------------------------------------------------
(* Claims about Engine::execute. *)

\* C2: on a fresh engine, for an acyclic batch whose dependencies are all in
\* the batch and whose formulas evaluate successfully given their
\* dependencies, every dependency of a formula being evaluated is already in
\* the formula-result cache, and execute ends with no error and a result
\* for every formula.
C2_DependenciesCommittedFirst ==
    (/\ nexec = 1 /\ ret # "Err"
     /\ Acyclic(graph) /\ AllDepsPresent(graph)
     /\ \A i \in DOMAIN batch : PlainFormula(batch[i]))
    => /\ pc = "running" =>
             \A n \in DOMAIN wlog :
                 graph.outgoing_edges[n] \subseteq DOMAIN formula_result_cache
       /\ pc = "idle" =>
             /\ get_errors = EmptyMap
             /\ \A n \in BatchNames : get_result(n) # <<>>

\* C3: when execute has returned, the value a formula B read through
\* get_output_from('A') in the evaluation that produced B's stored result is
\* get_result('A').
C3_ObservedIsFinal ==
    (pc = "idle" /\ ret = "Ok") =>
        \A b \in DOMAIN observed : \A a \in DOMAIN observed[b] :
            <<observed[b][a]>> = get_result(a)

\* C4: after execute returns Ok on a fresh engine, every formula of the batch
\* has a result or an error entry.
C4_EveryFormulaHasOutcome ==
    FreshDone =>
        \A n \in BatchNames : get_result(n) # <<>> \/ n \in DOMAIN get_errors

\* C5: every node on a dependency cycle, and every node that transitively
\* depends on one, is reported detached (with the error-map entry 'Could not
\* resolve dependency path') and is placed in no layer.
C5_CyclesAreDetached ==
    FreshDone =>
        \A n \in BatchNames :
            CycleBound(graph, n) =>
                /\ n \in Range(detached)
                /\ CacheGet(get_errors, n) = <<DetachedMessage(n)>>
                /\ ~InSomeLayer(layers, n)

\* C6: after a single execute on a fresh engine no formula name has both a
\* stored result and an error entry.
C6_ResultXorError ==
    FreshDone =>
        \A n \in BatchNames : ~(get_result(n) # <<>> /\ n \in DOMAIN get_errors)

\* C7: a second fresh engine with the same variables and functions that
\* executes the same batch ends with the same results and the same errors
\* as the first one.
C7_SameOutcomeOnBothEngines ==
    (engineNo = 2 /\ pc = "idle" /\ nexec = 1) =>
        first = [results |-> formula_result_cache, errors |-> get_errors, ret |-> ret]

\* C10: on a fresh engine, a formula with a declared dependency on a name
\* that is not in the batch is never scheduled nor evaluated, has no result,
\* has the error entry 'Could not resolve dependency path', and execute
\* returns Ok (it returns Err only for a duplicate name).
C10_MissingDependencyIsDetached ==
    nexec = 1 =>
        /\ ret = "Err" => ~DistinctNames
        /\ pc = "idle" => ret \in {"Ok", "Err"}
        /\ ret # "Err" =>
              \A i \in DOMAIN batch :
                  HasMissingDependency(batch[i]) =>
                      LET n == batch[i].name
                      IN /\ n \notin DOMAIN wlog
                         /\ n \notin DOMAIN evals
                         /\ get_result(n) = <<>>
                         /\ CacheGet(get_errors, n) = <<DetachedMessage(n)>>
                         /\ n \in Range(detached)
                         /\ ~InSomeLayer(layers, n)

\* execute has returned Ok for a batch in which one formula depends on a name
\* outside the batch and was reported, while another formula got its result
C10_Witness ==
    /\ FreshDone
    /\ \E i, j \in DOMAIN batch :
          /\ HasMissingDependency(batch[i])
          /\ CacheGet(get_errors, batch[i].name) = <<DetachedMessage(batch[i].name)>>
          /\ get_result(batch[i].name) = <<>>
          /\ get_result(batch[j].name) # <<>>

\* C11: an execute call whose batch holds two formulas of the same name
\* returns the dependency error and does nothing else: no worker is started,
\* no formula is evaluated, and the variable cache, the formula-result cache,
\* the function-result cache and the error map are as before the call.
C11_DuplicateNameFailsWholeCall ==
    /\ [](ret = "Err" => (pc = "idle" /\ evals = EmptyMap /\ wlog = EmptyMap))
    /\ [][(nexec' = nexec + 1 /\ ~DistinctNames') =>
             /\ ret' = "Err"
             /\ pc' = "idle"
             /\ evals' = EmptyMap
             /\ UNCHANGED <<variable_cache, formula_result_cache,
                            function_result_cache, errors>>]_vars

\* the second execute call of an engine that holds a variable, results and
\* errors was given a batch with a repeated name and returned the error
C11_Witness ==
    /\ ret = "Err"
    /\ nexec = 2
    /\ ~DistinctNames
    /\ Len(batch) = 3
    /\ variable_cache # EmptyMap
    /\ formula_result_cache # EmptyMap
    /\ errors # EmptyMap

\* a formula without dependencies and without function calls: its evaluation
\* reads the variable cache only
Standalone(f) ==
    /\ f.depends_on = <<>>
    /\ try_execute_formula(f, <<>>).st \in {"ok", "err"}

\* a formula whose dependencies, direct and transitive, are all formulas of
\* the batch, lie on no cycle and evaluate successfully once their own
\* dependencies have results
SelfSufficient(g, key) ==
    \A d \in DepsPlus(g, key) \cup {key} :
        /\ d \in DOMAIN g.data
        /\ ~OnCycle(g, d)
        /\ PlainFormula(g.data[d])

\* C12: with distinct names execute returns Ok; a formula whose parsing or
\* evaluation fails (division by zero, unknown variable) has its error recorded under
\* its own name and no result, every error entry is about the formula it is
\* filed under, and every formula that does not depend on a failing one (its
\* dependencies are in the batch, acyclic and evaluate) has its result stored.
C12_FailuresStayWithTheirFormula ==
    /\ (pc = "idle" /\ nexec = 1 /\ DistinctNames) => ret = "Ok"
    /\ FreshDone =>
          /\ \A n \in DOMAIN get_errors : get_errors[n].name = n
          /\ \A i \in DOMAIN batch :
                LET f == batch[i]
                    r == try_execute_formula(f, <<>>)
                IN /\ Standalone(f) =>
                        IF r.st = "err"
                        THEN /\ CacheGet(get_errors, f.name)
                                   = <<ExecutionMessage(f.name, r.v)>>
                             /\ get_result(f.name) = <<>>
                        ELSE /\ f.name \notin DOMAIN get_errors
                             /\ get_result(f.name) = <<r.v>>
                   /\ SelfSufficient(graph, f.name) => get_result(f.name) # <<>>

\* execute has returned Ok for a batch of three: one formula divided by zero
\* and has only its error entry, a formula of the first layer and a formula
\* of the second layer that do not depend on it have their results
C12_Witness ==
    /\ FreshDone
    /\ Len(batch) = 3
    /\ Len(layers) = 2
    /\ \E n \in BatchNames :
          /\ n \in DOMAIN get_errors
          /\ get_errors[n] = ExecutionMessage(n, CalculatorError("DivisionByZero", ""))
          /\ get_result(n) = <<>>
          /\ \A m \in BatchNames \ {n} :
                /\ get_result(m) # <<>>
                /\ m \notin DOMAIN get_errors

\* evaluations of formula_name finished in the current execute call
EvalCount(formula_name) ==
    IF formula_name \in DOMAIN evals THEN evals[formula_name] ELSE 0

\* C13: while layer li is being executed, the formulas being evaluated are
\* those of layer li and no others, every formula of an earlier layer has
\* finished and has its result or its error committed, and no formula has
\* been evaluated on behalf of a later layer.
C13_LayersRunInSequence ==
    pc = "running" =>
        /\ li \in 1..Len(layers)
        /\ DOMAIN wlog = {n \in layers[li] : n \in DOMAIN graph.data}
        /\ DOMAIN results \subseteq DOMAIN wlog
        /\ \A j \in 1..(li - 1) : \A n \in layers[j] :
              n \in DOMAIN formula_result_cache \/ n \in DOMAIN errors
        /\ \A n \in DOMAIN graph.data :
              EvalCount(n) = Cardinality({j \in 1..(li - 1) : n \in layers[j]})
                             + (IF n \in DOMAIN results THEN 1 ELSE 0)

\* the second of three layers is running: the formula of the first layer is
\* committed, the one of the second has finished and is not yet committed,
\* the one of the third has not been started
C13_Witness ==
    /\ pc = "running"
    /\ li = 2
    /\ Len(layers) = 3
    /\ Cardinality(BatchNames) = 3
    /\ \A n \in layers[1] : get_result(n) # <<>>
    /\ results # EmptyMap
    /\ \E n \in layers[3] : EvalCount(n) = 0 /\ n \notin DOMAIN wlog

\* every worker of the layer being executed has returned
LayerCollected == pc = "running" /\ DOMAIN results = DOMAIN wlog

\* C14: while workers of a layer are still evaluating, no step changes the
\* formula-result cache or the error map; the formula-result cache of an
\* engine is written only by the commit step, which runs when every worker
\* of the layer has returned.
C14_WorkersOnlyReadResults ==
    /\ [][(pc = "running" /\ ~LayerCollected) =>
             UNCHANGED <<formula_result_cache, errors>>]_vars
    /\ [][(formula_result_cache' # formula_result_cache /\ engineNo' = engineNo
           /\ nclear' = nclear) => LayerCollected]_vars

\* in the second layer one worker has returned and another is still
\* evaluating, with the results of the first layer in the cache
C14_Witness ==
    /\ pc = "running"
    /\ li = 2
    /\ results # EmptyMap
    /\ DOMAIN results # DOMAIN wlog
    /\ formula_result_cache # EmptyMap

\* C15: when an execute call of an engine that is never cleared has returned
\* Ok, a formula of its batch has a stored result exactly when one of its
\* evaluations in this call produced a value, and an error entry exactly
\* when it failed or was detached in this call.
C15_OutcomeIsOfLastBatch ==
    (pc = "idle" /\ ret = "Ok" /\ nexec >= 1 /\ nclear = 0) =>
        \A n \in BatchNames :
            /\ get_result(n) # <<>> <=> n \in DOMAIN observed
            /\ n \in DOMAIN get_errors <=> (n \in failed \/ n \in Range(detached))

\* C15 as the engine has it: results and error entries accumulate until
\* clear.  A formula that produced a value in a call has a stored result
\* when the call returns and one that failed or was detached has an error
\* entry; no step but clear removes a result or an error entry; a result
\* appears only for a formula that produced a value in the current call and
\* an error entry only for one that failed or was detached in it.
C15_OutcomesAccumulate ==
    /\ []((pc = "idle" /\ ret = "Ok" /\ nexec >= 1) =>
            \A n \in BatchNames :
                /\ n \in DOMAIN observed => get_result(n) # <<>>
                /\ (n \in failed \/ n \in Range(detached)) => n \in DOMAIN get_errors)
    /\ [][(nclear' = nclear /\ engineNo' = engineNo) =>
             /\ DOMAIN formula_result_cache \subseteq DOMAIN formula_result_cache'
             /\ DOMAIN errors \subseteq DOMAIN errors'
             /\ (DOMAIN formula_result_cache' \ DOMAIN formula_result_cache)
                    \subseteq DOMAIN observed'
             /\ (DOMAIN errors' \ DOMAIN errors)
                    \subseteq (failed' \cup Range(detached'))]_vars

\* the second execute call has returned: a formula that was detached in the
\* first call and produced a value in the second has its new result and
\* still its old error entry
C15_Witness ==
    /\ pc = "idle" /\ ret = "Ok" /\ nexec = 2 /\ nclear = 0
    /\ \E n \in BatchNames :
          /\ n \in DOMAIN observed
          /\ get_result(n) # <<>>
          /\ n \notin failed
          /\ n \notin Range(detached)
          /\ CacheGet(get_errors, n) = <<DetachedMessage(n)>>

-----------------------------------------------------------------------------
(* Claims about clear and the function-result cache, checked under SpecCache. *)

\* C16: clear empties the formula-result cache (get_result returns nothing
\* for every name), the error map, the variable cache and the
\* function-result cache and leaves the registry as it was; a registered
\* function is never reported as not found, before or after a clear, and
\* every entry of the function-result cache comes from an invocation made
\* since the last clear.
C16_ClearKeepsOnlyRegistry ==
    /\ [][(nclear' = nclear + 1) =>
             /\ pc = "idle"
             /\ \A n \in BatchNames : get_result(n)' = <<>>
             /\ formula_result_cache' = EmptyMap
             /\ get_errors' = EmptyMap
             /\ variable_cache' = EmptyMap
             /\ function_result_cache' = EmptyMap
             /\ function_cache' = function_cache]_vars
    /\ [][DOMAIN function_cache \subseteq DOMAIN function_cache']_vars
    /\ [](DOMAIN function_result_cache \subseteq DOMAIN invoked)
    /\ [](\A n \in DOMAIN results :
            (~results[n].ok /\ results[n].v.kind = "FunctionNotFound") =>
                results[n].v.msg \notin DOMAIN function_cache)

\* after a clear, a second execute call has found the registered function,
\* invoked it and stored what it returned as the result of the formula
C16_Witness ==
    /\ nclear = 1
    /\ nexec = 2
    /\ pc = "idle"
    /\ variable_cache = EmptyMap
    /\ function_cache # EmptyMap
    /\ batch = <<Formula("b", Return(double(ExprNumber(2))))>>
    /\ get_result("b") = <<ValueNumber(4)>>
    /\ invoked = (build_function_id(DoubleFunction.name, 1) :> 1)
    /\ get_errors = EmptyMap

\* the formula is `return NAME(ARGS)`: one function call
CallFormula(f) == f.body.stmt = "Return" /\ f.body.expr.op = "FunctionCall"

\* C17: a function call that looks its key up while an entry is stored gets
\* that entry, whatever the formula, the layer, the execute call and the
\* arguments; a call that got an entry returns it with no further cache
\* access, without evaluating its arguments (an argument that would fail
\* does not) and without invoking the function; entries stay until clear.
C17_CachedCallReturnsStoredValue ==
    /\ [](\A n \in DOMAIN wlog :
            (CallFormula(graph.data[n]) /\ wlog[n] # <<>> /\ wlog[n][1] # <<>>) =>
                LET r == try_execute_formula(graph.data[n], wlog[n])
                IN /\ r.st = "ok"
                   /\ r.v = wlog[n][1][1]
                   /\ r.s.inv = <<>>
                   /\ Len(wlog[n]) = 1
                   /\ n \in DOMAIN results =>
                         results[n] = [ok |-> TRUE, v |-> wlog[n][1][1], rd |-> EmptyMap])
    /\ [][\A n \in DOMAIN wlog :
             LET r == try_execute_formula(graph.data[n], wlog[n])
             IN (/\ Running(n)
                 /\ r.st = "get"
                 /\ r.v \in DOMAIN function_result_cache
                 /\ n \in DOMAIN wlog'
                 /\ wlog'[n] # wlog[n])
                => wlog'[n] = Append(wlog[n], <<function_result_cache[r.v]>>)]_vars
    /\ [][(nclear' = nclear) =>
             DOMAIN function_result_cache \subseteq DOMAIN function_result_cache']_vars

\* in a second execute call with no clear since the first, the formula
\* `return double(10 / 0)` has returned the 2 that `return double(1)` stored
\* in the first call
C17_Witness ==
    /\ nexec = 2
    /\ nclear = 0
    /\ pc = "running"
    /\ "b" \in DOMAIN results
    /\ graph.data["b"].body = Return(double(Divide(ExprNumber(10), ExprNumber(0))))
    /\ results["b"].ok
    /\ results["b"].v = ValueNumber(2)
    /\ invoked = (build_function_id(DoubleFunction.name, 1) :> 1)

\* Function::execute calls made for the key since the last clear
InvokedCount(function_id) ==
    IF function_id \in DOMAIN invoked THEN invoked[function_id] ELSE 0

\* C18: between two clear calls the registered function is invoked at most
\* once for a (name, arity) key, also when formulas of one layer call it
\* concurrently and when a call is nested in the arguments of another call
\* to the same function.
C18_InvokedAtMostOncePerKey ==
    \A function_id \in DOMAIN invoked : invoked[function_id] <= 1

\* the lookups and stores of the worker so far hold a lookup that found
\* nothing
HasMissed(formula_name) ==
    \E k \in DOMAIN wlog[formula_name] : wlog[formula_name][k] = <<>>

\* C18 as the engine has it: the function is invoked only by a call whose
\* own lookup of the key found nothing.  A worker all of whose lookups found
\* an entry neither invokes the function nor stores; every step that adds
\* an invocation is taken by a worker that has missed.  Nothing makes the
\* callers that missed wait for one another: each invokes and stores.
C18_InvokedOnlyAfterMiss ==
    /\ [](\A n \in DOMAIN wlog :
            ~HasMissed(n) =>
                LET r == try_execute_formula(graph.data[n], wlog[n])
                IN r.st \in {"ok", "err", "get"} /\ r.s.inv = <<>>)
    /\ [][\A function_id \in DOMAIN invoked' :
             (nclear' = nclear /\ InvokedCount(function_id)' > InvokedCount(function_id))
             => \E n \in DOMAIN wlog :
                   /\ Running(n)
                   /\ HasMissed(n)
                   /\ try_execute_formula(graph.data[n], wlog[n]).st \in {"set", "err"}
                   /\ \/ wlog'[n] = Append(wlog[n], <<>>)
                      \/ n \in DOMAIN results']_vars

\* two formulas of one layer, `return double(1)` and `return double(2)`,
\* both missed, both invoked the function and both stored
C18_Witness ==
    /\ nexec = 1
    /\ nclear = 0
    /\ pc = "idle"
    /\ batch = <<Formula("a", Return(double(ExprNumber(1)))),
                 Formula("b", Return(double(ExprNumber(2))))>>
    /\ InvokedCount(build_function_id(DoubleFunction.name, 1)) = 2
    /\ get_result("a") = <<ValueNumber(2)>>
    /\ get_result("b") = <<ValueNumber(4)>>

-----------------------------------------------------------------------------
(* A claim about variables, checked under SpecRerun. *)

\* what reading the variable `name` gives: its value in the variable cache,
\* or the variable-not-found error
ReadVariable(name) ==
    IF name \in DOMAIN variable_cache
    THEN [ok |-> TRUE, v |-> variable_cache[name]]
    ELSE [ok |-> FALSE, v |-> CalculatorError("VariableNotFound", name)]

\* C19: execute never changes the variable cache (only set_variable, between
\* execute calls, does); a formula of the first layer that returns x, and a
\* formula of the second layer that adds x to the result of the first, read
\* the value the variable cache holds for x, in the first execute call and
\* in later ones.
C19_VariablesReachEveryFormula ==
    /\ [][(pc = "running" \/ nexec' # nexec) => UNCHANGED variable_cache]_vars
    /\ [](\A n \in DOMAIN results :
            LET body == graph.data[n].body
                x == ReadVariable("x")
            IN /\ body = Return(Identifier("x")) =>
                     /\ results[n].ok = x.ok
                     /\ results[n].v = x.v
               /\ (body = Return(Add(goF("a"), Identifier("x")))
                   /\ get_result("a") # <<>>) =>
                     /\ results[n].ok = x.ok
                     /\ results[n].v =
                           IF x.ok THEN ValueNumber(get_result("a")[1].v + x.v.v)
                           ELSE x.v)

\* the second execute call of an engine whose variable was set before the
\* first one: in the second layer, `return get_output_from('a') + x` has
\* read x = 1 once through `a: return x` and once itself
C19_Witness ==
    /\ nexec = 2
    /\ pc = "running"
    /\ li = 2
    /\ variable_cache = ("x" :> ValueNumber(1))
    /\ graph.data["a"].body = Return(Identifier("x"))
    /\ "b" \in DOMAIN results
    /\ results["b"].ok
    /\ results["b"].v = ValueNumber(2)

-----------------------------------------------------------------------------
(* The WASM wrapper, src/src/wasm.rs: an Engine around one core engine.      *)

\* `for (key, value) in vars { self.inner.set_variable(key, Number(value)) }`
RECURSIVE SetVariables(_, _, _)
SetVariables(cache, variables, keys) ==
    IF keys = {} THEN cache
    ELSE LET key == CHOOSE k \in keys : TRUE
         IN SetVariables(MapInsert(cache, key, ValueNumber(variables[key])),
                         variables, keys \ {key})

\* the temporary formula: CoreFormula::new("_temp", "return {expression}")
TempFormula(body) == Formula("_temp", body)

\* Engine::evaluate_expression up to the parallel section of the core
\* engine's execute: set the variables, build the formula, call execute
evaluate_expression(body, variables) ==
    /\ variable_cache' = SetVariables(variable_cache, variables, DOMAIN variables)
    /\ ExecuteCall(<<TempFormula(body)>>)

\* what evaluate_expression returns once execute has returned: the number
\* stored under "_temp", or an error string
EvaluateExpressionReturn ==
    IF ret = "Err" THEN [ok |-> FALSE, v |-> "Execution error"]
    ELSE LET result == get_result("_temp")
         IN IF result = <<>> THEN [ok |-> FALSE, v |-> "No result found"]
            ELSE IF result[1].t = "Number" THEN [ok |-> TRUE, v |-> result[1].v]
            ELSE [ok |-> FALSE, v |-> "Result is not a number"]

\* the expressions the page passes in, as `return {expression}` parses
WasmBodies == {
    \* 1 + 1
    Return(Add(ExprNumber(1), ExprNumber(1))),
    \* x
    Return(Identifier("x")),
    \* 10 / x
    Return(Divide(ExprNumber(10), Identifier("x"))),
    \* 's'
    Return(ExprString("s")),
    \* 1 +
    Unparsable
}

\* the variables objects the page passes in
WasmVariables == {EmptyMap, "x" :> 0, "x" :> 1}

\* CoreEngine::new().execute(vec![formula]) as the wrapper reads it: execute
\* returns Err only through the `?` after add_node, and what the evaluation
\* of the formula finds goes to the error map of the temporary engine, which
\* is dropped
NewEngineExecute(formula) ==
    IF AddFormulas(<<formula>>, 1, NewGraph).ok THEN "Ok" ELSE "Err"

\* Engine::validate_expression: `test_engine.execute(vec![formula]).is_ok()`
validate_expression(body) == NewEngineExecute(Formula("_test", body)) = "Ok"

\* Formula::parse of the wrapper: the `?` after execute, then Ok(Formula)
FormulaParse(body) ==
    IF NewEngineExecute(Formula("_parse_test", body)) = "Ok"
    THEN [ok |-> TRUE, v |-> body]
    ELSE [ok |-> FALSE, v |-> "Parse error"]

\* the page calls validateExpression: `&self`, the engine is left alone
ValidateExpression(body) ==
    /\ pc # "running"
    /\ returned' = [call |-> "validate_expression", arg |-> body,
                    v |-> validate_expression(body)]
    /\ UNCHANGED <<graph, layers, detached, pc, variable_cache, formula_result_cache,
                   function_cache, function_result_cache, errors, batch, ret, li,
                   wlog, results, nexec, evals, observed, engineNo, first, failed,
                   invoked, nclear, unsatisfied>>

\* the page calls Formula.parse: an associated function, no engine involved
CallFormulaParse(body) ==
    /\ pc # "running"
    /\ returned' = [call |-> "parse", arg |-> body, v |-> FormulaParse(body)]
    /\ UNCHANGED <<graph, layers, detached, pc, variable_cache, formula_result_cache,
                   function_cache, function_result_cache, errors, batch, ret, li,
                   wlog, results, nexec, evals, observed, engineNo, first, failed,
                   invoked, nclear, unsatisfied>>

\* One wrapper engine: the page calls evaluateExpression several times.
NextWasm ==
    \/ \E body \in WasmBodies, variables \in WasmVariables :
          /\ nexec < MaxExecutes
          /\ evaluate_expression(body, variables)
    \/ \E formula_name \in DOMAIN wlog : WorkerFinish(formula_name)
    \/ CommitLayer
    \/ \E body \in WasmBodies : ValidateExpression(body)
    \/ \E body \in WasmBodies : CallFormulaParse(body)

SpecWasm == Init /\ [][NextWasm]_vars

\* C20: when evaluate_expression returns, it returns the value of the
\* expression of that call under the variables the wrapper holds, and an
\* error when that expression does not parse, does not evaluate or does not
\* yield a number, whatever calls were made on the wrapper before.
C20_ReturnsThisCallsValue ==
    (pc = "idle" /\ nexec >= 1) =>
        LET r == try_execute_formula(batch[1], <<>>)
        IN IF r.st = "ok" /\ r.v.t = "Number"
           THEN EvaluateExpressionReturn = [ok |-> TRUE, v |-> r.v.v]
           ELSE ~EvaluateExpressionReturn.ok

-----------------------------------------------------------------------------
(* C21: what the wrapper's validate_expression and Formula::parse answer.    *)

\* `return {expression}` lexes and parses
Parses(body) == body # Unparsable

\* C21: validate_expression returns true only for an expression whose
\* formula `return <expression>` lexes and parses and false when the syntax is
\* invalid, and Formula::parse returns an error in that case.
C21_ValidateTellsSyntax ==
    /\ (returned # <<>> /\ returned.call = "validate_expression") =>
          (returned.v <=> Parses(returned.arg))
    /\ (returned # <<>> /\ returned.call = "parse") =>
          (returned.v.ok <=> Parses(returned.arg))

-----------------------------------------------------------------------------
(* C22: the layers and the detached list do not overlap. *)

\* C22: no key of the detached list topological_sort returns is placed in a
\* layer, and a formula reported detached ('Could not resolve dependency
\* path') is not evaluated in that execute call.
C22_DetachedIsInNoLayer ==
    /\ \A k \in DOMAIN detached : ~InSomeLayer(layers, detached[k])
    /\ (nexec >= 1 /\ ret # "Err") =>
          \A k \in DOMAIN detached :
              /\ CacheGet(get_errors, detached[k]) = <<DetachedMessage(detached[k])>>
              /\ detached[k] \notin DOMAIN wlog
              /\ EvalCount(detached[k]) = 0

\* execute has returned for a batch of three with two formulas in the layers
\* and one detached: the two were evaluated, the detached one was not
C22_Witness ==
    /\ FreshDone
    /\ Len(batch) = 3
    /\ Len(detached) = 1
    /\ Cardinality(UNION Range(layers)) = 2
    /\ \A n \in UNION Range(layers) : EvalCount(n) >= 1
    /\ EvalCount(detached[1]) = 0
    /\ CacheGet(get_errors, detached[1]) = <<DetachedMessage(detached[1])>>

-----------------------------------------------------------------------------
(* C23: how often a node is placed and a formula is evaluated. *)

\* C23: every node appears in at most one layer of the result of
\* topological_sort, and execute evaluates each formula of the batch at most
\* once per call.
C23_AtMostOneLayerAndEvaluation ==
    \A n \in BatchNames :
        /\ Cardinality(LayersOf(layers, n)) <= 1
        /\ EvalCount(n) <= 1

-----------------------------------------------------------------------------
(* C24: the loop of topological_sort ends. *)

\* C24: for every graph, with cycles, self-dependencies and dependencies on
\* keys that are no nodes, the loop that pushes layers meets an empty layer
\* after at most as many iterations as there are nodes, and topological_sort
\* returns; what it returns is a result of the sort as execute calls it.
C24_SortTerminates ==
    /\ (pc = "sorting") ~> (pc = "sorted")
    /\ [](pc = "sorting" =>
             Len(layers) <= Cardinality(DOMAIN graph.outgoing_edges) + 1)
    /\ [](pc = "sorted" =>
             [layers |-> layers, detached |-> detached] \in topological_sort(graph))

\* the sort has returned for a graph with a node without dependencies, a
\* node that depends on it, and a node that depends on itself and on a key
\* that is no node
C24_Witness ==
    /\ pc = "sorted"
    /\ Len(layers) >= 2
    /\ \E key \in DOMAIN graph.outgoing_edges :
          /\ key \in graph.outgoing_edges[key]
          /\ MissingKey \in graph.outgoing_edges[key]
          /\ key \in Range(detached)

-----------------------------------------------------------------------------
(* C25: a dependency computed by an earlier call, checked under SpecRerun. *)

\* the formula declares a dependency that is not in the current batch and
\* has a result in the formula-result cache
DependsOnEarlierResult(f) ==
    \E i \in DOMAIN f.depends_on :
        /\ f.depends_on[i] \notin BatchNames
        /\ get_result(f.depends_on[i]) # <<>>

\* C25: a formula with a declared dependency that is not in the batch being
\* executed, its value still in the formula-result cache from an earlier
\* execute call, is detached in this call: it is placed in no layer, it is
\* not evaluated, it has the error entry 'Could not resolve dependency path',
\* and no step of the call touches its stored result.
C25_EarlierResultDoesNotResolve ==
    /\ []((nexec >= 1 /\ ret # "Err") =>
            \A i \in DOMAIN batch :
                DependsOnEarlierResult(batch[i]) =>
                    LET n == batch[i].name
                    IN /\ n \in Range(detached)
                       /\ ~InSomeLayer(layers, n)
                       /\ n \notin DOMAIN wlog
                       /\ EvalCount(n) = 0
                       /\ CacheGet(get_errors, n) = <<DetachedMessage(n)>>)
    /\ [][(nexec' >= 1 /\ ret' # "Err") =>
            \A i \in DOMAIN batch' :
                DependsOnEarlierResult(batch[i])' =>
                    CacheGet(formula_result_cache', batch'[i].name)
                        = CacheGet(formula_result_cache, batch'[i].name)]_vars

\* the second execute call has returned for the batch [b] alone: a and b
\* have the results of the first call, and b is detached in the second
C25_Witness ==
    /\ pc = "idle" /\ ret = "Ok" /\ nexec = 2
    /\ BatchNames = {"b"}
    /\ get_result("a") # <<>>
    /\ get_result("b") # <<>>
    /\ detached = <<"b">>
    /\ layers = <<>>
    /\ CacheGet(get_errors, "b") = <<DetachedMessage("b")>>

-----------------------------------------------------------------------------
(* C26: the dependents of a formula that failed. *)

\* formula B of the batch declares a dependency on A, and A failed during its
\* evaluation in this call
DependsOnFailed(f, a) == a \in failed /\ a \in Range(f.depends_on)

\* every key B depends on, directly or transitively, is a formula of the
\* batch and lies on no cycle
Resolvable(g, key) ==
    /\ ~OnCycle(g, key)
    /\ \A d \in DepsPlus(g, key) : d \in DOMAIN g.outgoing_edges /\ ~OnCycle(g, d)

\* the first declared dependency of f that has no result
FirstWithoutResult(f) ==
    LET I == {i \in DOMAIN f.depends_on : get_result(f.depends_on[i]) = <<>>}
    IN f.depends_on[CHOOSE i \in I : \A j \in I : i <= j]

-----------------------------------------------------------------------------
(* The evaluator alone: Evaluator::new over four caches, then one call of   *)
(* evaluate on the calling thread, as in the tests of evaluator.rs.  The     *)
(* formula-result cache holds results under probe names: a                    *)
(* get_output_from('NAME') that is evaluated and finds its result is          *)
(* recorded in rd, which tells the sub-expressions that were evaluated from  *)
(* those that were not.                                                       *)

MaxArgs == 2
MaxElseIfs == 2

\* the names of the probes: a number, true and false for every position
NumberProbe(k) == "n" \o ToString(k)
TrueProbe(k) == "t" \o ToString(k)
FalseProbe(k) == "f" \o ToString(k)

Positions == 1..(MaxArgs + MaxElseIfs + 1)

\* the formula-result cache the evaluator is built with
ProbeResults ==
    [name \in {NumberProbe(k) : k \in Positions} \cup {TrueProbe(k) : k \in Positions}
              \cup {FalseProbe(k) : k \in Positions} |->
        IF name \in {NumberProbe(k) : k \in Positions}
        THEN ValueNumber(CHOOSE k \in Positions : name = NumberProbe(k))
        ELSE ValueBool(name \in {TrueProbe(k) : k \in Positions})]

\* the registries the evaluator is built with
Registries ==
    {EmptyMap,
     build_function_id(DoubleFunction.name, 1) :> DoubleFunction,
     build_function_id(AddFunction.name, 2) :> AddFunction,
     (build_function_id(DoubleFunction.name, 1) :> DoubleFunction)
         @@ (build_function_id(AddFunction.name, 2) :> AddFunction)}

\* the function-result caches the evaluator is built with: empty, or holding
\* the result of an earlier double(...) call
ResultCaches ==
    {EmptyMap, build_function_id(DoubleFunction.name, 1) :> ValueNumber(7)}

InitEval ==
    /\ graph = NewGraph
    /\ layers = <<>>
    /\ detached = <<>>
    /\ pc = "idle"
    /\ variable_cache = EmptyMap
    /\ formula_result_cache = ProbeResults
    /\ function_cache \in Registries
    /\ function_result_cache \in ResultCaches
    /\ errors = EmptyMap
    /\ batch = <<>>
    /\ ret = "None"
    /\ li = 0
    /\ wlog = EmptyMap
    /\ results = EmptyMap
    /\ nexec = 0
    /\ evals = EmptyMap
    /\ observed = EmptyMap
    /\ engineNo = 1
    /\ first = EmptyMap
    /\ failed = {}
    /\ invoked = EmptyMap
    /\ nclear = 0
    /\ unsatisfied = {}
    /\ returned = <<>>

\* evaluate on one thread: every access to the function-result cache is made
\* when the evaluation reaches it.  called lists the function ids whose
\* Function::execute ran.
RECURSIVE RunEvaluate(_, _, _, _)
\* what follows one pass r of the evaluation: the cache access it stopped at
\* is made and the evaluation goes on, or it has returned
RunFrom(program, c, cache, called, r) ==
    CASE r.st = "get" ->
           RunEvaluate(program, [c EXCEPT !.log = Append(@, CacheGet(cache, r.v))],
                       cache, called)
      [] r.st = "set" ->
           RunEvaluate(program, [c EXCEPT !.log = Append(@, <<>>)],
                       MapInsert(cache, r.v[1], r.v[2]), Append(called, r.v[1]))
      [] OTHER ->
           [st |-> r.st, v |-> r.v, rd |-> r.s.rd,
            function_result_cache |-> cache, called |-> called \o r.s.inv]

RunEvaluate(program, c, cache, called) ==
    RunFrom(program, c, cache, called, evaluate(program, c))

\* evaluator.evaluate(&program)
Evaluate(program) ==
    /\ returned = <<>>
    /\ LET r == RunEvaluate(program, Evaluator(<<>>), function_result_cache, <<>>)
       IN /\ returned' = [program |-> program, before |-> function_result_cache,
                          st |-> r.st, v |-> r.v, rd |-> r.rd, called |-> r.called]
          /\ function_result_cache' = r.function_result_cache
          /\ invoked' = CountInvoked(invoked, r.called, 1)
    /\ UNCHANGED <<graph, layers, detached, pc, variable_cache, formula_result_cache,
                   function_cache, errors, batch, ret, li, wlog, results, nexec,
                   evals, observed, engineNo, first, failed, nclear, unsatisfied>>

\* the arguments a call of the model has at position k
ArgumentsAt(k) ==
    {goF(NumberProbe(k)),
     Divide(ExprNumber(10), ExprNumber(0)),
     goF(MissingKey),
     ExprString("s"),
     double(ExprNumber(1))}

RECURSIVE ArgumentLists(_)
\* the argument lists of n arguments
ArgumentLists(n) ==
    IF n = 0 THEN {<<>>}
    ELSE {Append(args, a) : args \in ArgumentLists(n - 1), a \in ArgumentsAt(n)}

\* return NAME(args) for the two function names and 1..MaxArgs arguments
CallPrograms ==
    {Return(FunctionCall(name, args)) :
        name \in {DoubleFunction.name, AddFunction.name},
        args \in UNION {ArgumentLists(n) : n \in 1..MaxArgs}}

\* the conditions an if statement of the model has at position k
ConditionsAt(k) ==
    {goF(TrueProbe(k)),
     goF(FalseProbe(k)),
     ExprNumber(1),
     Divide(ExprNumber(10), ExprNumber(0))}

\* the block of the k-th condition: return 10 + k
BlockAt(k) == Return(ExprNumber(10 + k))

RECURSIVE ElseIfLists(_)
\* the else-if lists of n entries
ElseIfLists(n) ==
    IF n = 0 THEN {<<>>}
    ELSE {Append(else_ifs, <<cond, BlockAt(n + 1)>>) :
             else_ifs \in ElseIfLists(n - 1), cond \in ConditionsAt(n + 1)}

\* if (c1) then return 11 else if (c2) then return 12 ... [else return 0] end
IfPrograms ==
    {If(condition, BlockAt(1), else_ifs, else_block) :
        condition \in ConditionsAt(1),
        else_ifs \in UNION {ElseIfLists(n) : n \in 0..MaxElseIfs},
        else_block \in {<<>>, <<Return(ExprNumber(0))>>}}

\* the operands of a logical operator at position k
OperandsAt(k) ==
    {goF(TrueProbe(k)),
     goF(FalseProbe(k)),
     goF(NumberProbe(k)),
     Divide(ExprNumber(10), ExprNumber(0)),
     goF(MissingKey)}

\* return L and R, return L or R
LogicPrograms ==
    {Return(And(l, r)) : l \in OperandsAt(1), r \in OperandsAt(2)}
    \cup {Return(Or(l, r)) : l \in OperandsAt(1), r \in OperandsAt(2)}

NextEval ==
    \/ \E program \in CallPrograms : Evaluate(program)
    \/ \E program \in IfPrograms : Evaluate(program)
    \/ \E program \in LogicPrograms : Evaluate(program)

SpecEval == InitEval /\ [][NextEval]_vars

-----------------------------------------------------------------------------
(* Claims about the evaluator, checked under SpecEval. *)

\* what the expression e evaluates to on its own, with the caches the
\* evaluator was built with
Alone(e) == RunEvaluate(Return(e), Evaluator(<<>>), returned.before, <<>>)

\* the least element of a non-empty set of numbers
Least(S) == CHOOSE k \in S : \A j \in S : k <= j

\* C27: a call whose key snake_case(name)_arity has no cached result and no
\* registered function fails with function-not-found, no argument evaluated
\* and nothing invoked or stored (also when the name is registered with
\* another arity); with a registered function the arguments are evaluated
\* from the left, the first failing one aborts the call with its error and
\* the later ones are not evaluated, and no entry is stored under the key
\* when an argument or the function fails.
C27_CallOnMiss ==
    (/\ returned # <<>>
     /\ returned.program.stmt = "Return"
     /\ returned.program.expr.op = "FunctionCall") =>
        LET e == returned.program.expr
            function_id == build_function_id(e.name, Len(e.args))
            alone == [k \in DOMAIN e.args |-> Alone(e.args[k])]
            failing == {k \in DOMAIN e.args : alone[k].st = "err"}
        IN function_id \notin DOMAIN returned.before =>
              IF function_id \notin DOMAIN function_cache
              THEN /\ returned.st = "err"
                   /\ returned.v = CalculatorError("FunctionNotFound", function_id)
                   /\ returned.rd = EmptyMap
                   /\ returned.called = <<>>
                   /\ function_result_cache = returned.before
              ELSE IF failing # {}
              THEN /\ returned.st = "err"
                   /\ returned.v = alone[Least(failing)].v
                   /\ DOMAIN returned.rd
                         = UNION {DOMAIN alone[k].rd : k \in 1..Least(failing)}
                   /\ function_id \notin Range(returned.called)
                   /\ function_id \notin DOMAIN function_result_cache
              ELSE LET result == FunctionExecute(function_cache[function_id],
                                                 [k \in DOMAIN e.args |-> alone[k].v])
                   IN /\ DOMAIN returned.rd = UNION {DOMAIN alone[k].rd : k \in DOMAIN e.args}
                      /\ function_id \in Range(returned.called)
                      /\ IF result.ok
                         THEN /\ returned.st = "ok"
                              /\ returned.v = result.v
                              /\ CacheGet(function_result_cache, function_id) = <<result.v>>
                         ELSE /\ returned.st = "err"
                              /\ returned.v = result.v
                              /\ function_id \notin DOMAIN function_result_cache

\* double(get_output_from('n1'), get_output_from('n2')) was evaluated with
\* double registered for one argument: function-not-found for double_2, and
\* neither argument was read
C27_Witness ==
    /\ returned # <<>>
    /\ returned.program = Return(FunctionCall(DoubleFunction.name,
                                   <<goF(NumberProbe(1)), goF(NumberProbe(2))>>))
    /\ build_function_id(DoubleFunction.name, 1) \in DOMAIN function_cache
    /\ returned.st = "err"
    /\ returned.v = CalculatorError("FunctionNotFound",
                                    build_function_id(DoubleFunction.name, 2))
    /\ returned.rd = EmptyMap
    /\ function_result_cache = EmptyMap

\* what the block evaluates to on its own
AloneBlock(block) == RunEvaluate(block, Evaluator(<<>>), returned.before, <<>>)

\* how a condition comes out on its own: "true", "false", "nonbool", "error"
ConditionKind(r) ==
    IF r.st = "err" THEN "error"
    ELSE IF r.v.t # "Bool" THEN "nonbool"
    ELSE IF r.v.v THEN "true" ELSE "false"

\* C28: an If statement checks its conditions in order, the if condition and
\* then each else-if; the first condition that is not false decides: true
\* runs its block, a non-boolean fails with a type error, a failing condition
\* fails the statement with its error; no later condition is evaluated; when
\* every condition is false the else block runs if there is one, and
\* otherwise the statement fails with 'No matching condition'.
C28_FirstTrueConditionDecides ==
    (returned # <<>> /\ returned.program.stmt = "If") =>
        LET stmt == returned.program
            conditions == <<stmt.condition>>
                              \o [k \in DOMAIN stmt.else_ifs |-> stmt.else_ifs[k][1]]
            blocks == <<stmt.then_block>>
                          \o [k \in DOMAIN stmt.else_ifs |-> stmt.else_ifs[k][2]]
            alone == [k \in DOMAIN conditions |-> Alone(conditions[k])]
            deciding == {k \in DOMAIN conditions : ConditionKind(alone[k]) # "false"}
        IN IF deciding = {}
           THEN /\ DOMAIN returned.rd = UNION {DOMAIN alone[k].rd : k \in DOMAIN conditions}
                /\ IF stmt.else_block # <<>>
                   THEN /\ returned.st = "ok"
                        /\ returned.v = AloneBlock(stmt.else_block[1]).v
                   ELSE /\ returned.st = "err"
                        /\ returned.v = CalculatorError("EvalError", "No matching condition")
           ELSE LET k == Least(deciding)
                    kind == ConditionKind(alone[k])
                IN /\ DOMAIN returned.rd = UNION {DOMAIN alone[j].rd : j \in 1..k}
                   /\ kind = "true" =>
                         /\ returned.st = "ok"
                         /\ returned.v = AloneBlock(blocks[k]).v
                   /\ kind = "nonbool" =>
                         /\ returned.st = "err"
                         /\ returned.v = CalculatorError("TypeError",
                               IF k = 1 THEN "Condition must be boolean"
                               ELSE "Else-if condition must be boolean")
                   /\ kind = "error" =>
                         /\ returned.st = "err"
                         /\ returned.v = alone[k].v

\* if (get_output_from('f1')) then return 11 else if (get_output_from('t2'))
\* then return 12 else if (10 / 0) then return 13 else return 0 end was
\* evaluated: 12, and only f1 and t2 were read
C28_Witness ==
    /\ returned # <<>>
    /\ returned.program
          = If(goF(FalseProbe(1)), BlockAt(1),
               <<<<goF(TrueProbe(2)), BlockAt(2)>>,
                 <<Divide(ExprNumber(10), ExprNumber(0)), BlockAt(3)>>>>,
               <<Return(ExprNumber(0))>>)
    /\ returned.st = "ok"
    /\ returned.v = ValueNumber(12)
    /\ DOMAIN returned.rd = {FalseProbe(1), TrueProbe(2)}

\* C29: And and Or do not short-circuit: the left operand is evaluated, then
\* the right one whatever the value of the left; an error of the left
\* operand, else an error of the right one, fails the expression, also for
\* `false and X` and `true or X`; with two values the expression is a type
\* error unless both are booleans.
C29_LogicEvaluatesBothOperands ==
    (/\ returned # <<>>
     /\ returned.program.stmt = "Return"
     /\ returned.program.expr.op \in {"And", "Or"}) =>
        LET e == returned.program.expr
            l == Alone(e.left)
            r == Alone(e.right)
        IN IF l.st = "err"
           THEN /\ returned.st = "err"
                /\ returned.v = l.v
           ELSE /\ DOMAIN returned.rd = DOMAIN l.rd \cup DOMAIN r.rd
                /\ IF r.st = "err"
                   THEN /\ returned.st = "err"
                        /\ returned.v = r.v
                   ELSE IF l.v.t = "Bool" /\ r.v.t = "Bool"
                   THEN /\ returned.st = "ok"
                        /\ returned.v = ValueBool(IF e.op = "And" THEN l.v.v /\ r.v.v
                                                  ELSE l.v.v \/ r.v.v)
                   ELSE /\ returned.st = "err"
                        /\ returned.v = CalculatorError("TypeError",
                              IF e.op = "And" THEN "Logical AND requires booleans"
                              ELSE "Logical OR requires booleans")

\* return get_output_from('t1') or 10 / 0 was evaluated: division by zero,
\* though the left operand is true
C29_Witness ==
    /\ returned # <<>>
    /\ returned.program
          = Return(Or(goF(TrueProbe(1)), Divide(ExprNumber(10), ExprNumber(0))))
    /\ returned.st = "err"
    /\ returned.v = CalculatorError("DivisionByZero", "")
    /\ DOMAIN returned.rd = {TrueProbe(1)}

-----------------------------------------------------------------------------
(* The parser, src/src/parser/parser.rs: recursive descent over the tokens  *)
(* of the lexer, which end with Eof.  position counts from 1.  A parse       *)
(* function returns the expression and the position after it, or the parse   *)
(* error.  The tokens of the model are the literals, the operators and the   *)
(* parentheses; identifiers, strings and the built-in function tokens are    *)
(* left out, so an if or error statement and a call never start.             *)

TokenNumber(n) == [t |-> "Number", v |-> n]
TokenBool(b) == [t |-> "Bool", b |-> b]
Token(t) == [t |-> t]

LessThan(l, r) == [op |-> "LessThan", left |-> l, right |-> r]
GreaterThan(l, r) == [op |-> "GreaterThan", left |-> l, right |-> r]
LessThanOrEqual(l, r) == [op |-> "LessThanOrEqual", left |-> l, right |-> r]
GreaterThanOrEqual(l, r) == [op |-> "GreaterThanOrEqual", left |-> l, right |-> r]
Modulo(l, r) == [op |-> "Modulo", left |-> l, right |-> r]
Power(l, r) == [op |-> "Power", left |-> l, right |-> r]

\* Expr::X(Box::new(left), Box::new(right)) for the token of X
BinaryExpr(t, l, r) ==
    CASE t = "Or" -> Or(l, r)
      [] t = "And" -> And(l, r)
      [] t = "Equal" -> Equal(l, r)
      [] t = "NotEqual" -> NotEqual(l, r)
      [] t = "LessThan" -> LessThan(l, r)
      [] t = "GreaterThan" -> GreaterThan(l, r)
      [] t = "LessThanOrEqual" -> LessThanOrEqual(l, r)
      [] t = "GreaterThanOrEqual" -> GreaterThanOrEqual(l, r)
      [] t = "Plus" -> Add(l, r)
      [] t = "Minus" -> Subtract(l, r)
      [] t = "Multiply" -> Multiply(l, r)
      [] t = "Divide" -> Divide(l, r)
      [] t = "Mod" -> Modulo(l, r)
      [] t = "Power" -> Power(l, r)

Parsed(expr, position) == [ok |-> TRUE, expr |-> expr, position |-> position]
ParseError(msg) == [ok |-> FALSE, msg |-> msg]

\* Parser::check_token: the discriminant of the current token
check_token(tokens, position, t) ==
    position <= Len(tokens) /\ tokens[position].t = t

\* check_token for one of several tokens, as the if / else if chains do
CheckAny(tokens, position, T) == \E t \in T : check_token(tokens, position, t)

RECURSIVE parse_or(_, _)
RECURSIVE parse_or_loop(_, _, _)
RECURSIVE parse_and(_, _)
RECURSIVE parse_and_loop(_, _, _)
RECURSIVE parse_equality(_, _)
RECURSIVE parse_equality_loop(_, _, _)
RECURSIVE parse_comparison(_, _)
RECURSIVE parse_comparison_loop(_, _, _)
RECURSIVE parse_additive(_, _)
RECURSIVE parse_additive_loop(_, _, _)
RECURSIVE parse_multiplicative(_, _)
RECURSIVE parse_multiplicative_loop(_, _, _)
RECURSIVE parse_modulo(_, _)
RECURSIVE parse_modulo_loop(_, _, _)
RECURSIVE parse_power(_, _)
RECURSIVE parse_unary(_, _)
RECURSIVE parse_primary(_, _)

\* the `?` operator after a parse_* call: the error is returned, or the
\* function goes on with what was parsed
Try(result, Then(_)) == IF ~result.ok THEN result ELSE Then(result)

\* Parser::parse_expression
parse_expression(tokens, position) == parse_or(tokens, position)

\* Parser::parse_primary
parse_primary(tokens, position) ==
    LET current == tokens[position]
    IN CASE current.t = "Number" -> Parsed(ExprNumber(current.v), position + 1)
         [] current.t = "Bool" -> Parsed(ExprBool(current.b), position + 1)
         [] current.t = "LeftParen" ->
               Try(parse_expression(tokens, position + 1),
                   LAMBDA expr : IF check_token(tokens, expr.position, "RightParen")
                                 THEN Parsed(expr.expr, expr.position + 1)
                                 ELSE ParseError("Expected RightParen"))
         [] OTHER -> ParseError("Unexpected token")

\* Parser::parse_unary
parse_unary(tokens, position) ==
    IF check_token(tokens, position, "Minus")
    THEN Try(parse_unary(tokens, position + 1),
             LAMBDA expr : Parsed(UnaryMinus(expr.expr), expr.position))
    ELSE IF check_token(tokens, position, "Not")
    THEN Try(parse_unary(tokens, position + 1),
             LAMBDA expr : Parsed(Not(expr.expr), expr.position))
    ELSE parse_primary(tokens, position)

\* parse_power with `while` in the place of `if` and parse_unary for the
\* right operand: '^' folded left to right like the other levels
RECURSIVE parse_power_loop(_, _, _)
parse_power_loop(tokens, left, position) ==
    IF check_token(tokens, position, "Power")
    THEN Try(parse_unary(tokens, position + 1),
             LAMBDA right : parse_power_loop(tokens, Power(left, right.expr), right.position))
    ELSE Parsed(left, position)

parse_power_folding_left(tokens, position) ==
    Try(parse_unary(tokens, position),
        LAMBDA left : parse_power_loop(tokens, left.expr, left.position))

\* Parser::parse_power
parse_power(tokens, position) ==
    Try(parse_unary(tokens, position),
        LAMBDA left :
            IF check_token(tokens, left.position, "Power")
            THEN Try(parse_power(tokens, left.position + 1),
                     LAMBDA right : Parsed(Power(left.expr, right.expr), right.position))
            ELSE left)

\* the `while` of parse_modulo
parse_modulo_loop(tokens, left, position) ==
    IF check_token(tokens, position, "Mod")
    THEN Try(parse_power(tokens, position + 1),
             LAMBDA right : parse_modulo_loop(tokens, Modulo(left, right.expr), right.position))
    ELSE Parsed(left, position)

\* Parser::parse_modulo
parse_modulo(tokens, position) ==
    Try(parse_power(tokens, position),
        LAMBDA left : parse_modulo_loop(tokens, left.expr, left.position))

\* the `loop` of parse_multiplicative
parse_multiplicative_loop(tokens, left, position) ==
    IF CheckAny(tokens, position, {"Multiply", "Divide"})
    THEN Try(parse_modulo(tokens, position + 1),
             LAMBDA right : parse_multiplicative_loop(
                 tokens, BinaryExpr(tokens[position].t, left, right.expr), right.position))
    ELSE Parsed(left, position)

\* Parser::parse_multiplicative
parse_multiplicative(tokens, position) ==
    Try(parse_modulo(tokens, position),
        LAMBDA left : parse_multiplicative_loop(tokens, left.expr, left.position))

\* the `loop` of parse_additive
parse_additive_loop(tokens, left, position) ==
    IF CheckAny(tokens, position, {"Plus", "Minus"})
    THEN Try(parse_multiplicative(tokens, position + 1),
             LAMBDA right : parse_additive_loop(
                 tokens, BinaryExpr(tokens[position].t, left, right.expr), right.position))
    ELSE Parsed(left, position)

\* Parser::parse_additive
parse_additive(tokens, position) ==
    Try(parse_multiplicative(tokens, position),
        LAMBDA left : parse_additive_loop(tokens, left.expr, left.position))

\* the `loop` of parse_comparison
parse_comparison_loop(tokens, left, position) ==
    IF CheckAny(tokens, position,
                {"LessThan", "GreaterThan", "LessThanOrEqual", "GreaterThanOrEqual"})
    THEN Try(parse_additive(tokens, position + 1),
             LAMBDA right : parse_comparison_loop(
                 tokens, BinaryExpr(tokens[position].t, left, right.expr), right.position))
    ELSE Parsed(left, position)

\* Parser::parse_comparison
parse_comparison(tokens, position) ==
    Try(parse_additive(tokens, position),
        LAMBDA left : parse_comparison_loop(tokens, left.expr, left.position))

\* the `loop` of parse_equality
parse_equality_loop(tokens, left, position) ==
    IF CheckAny(tokens, position, {"Equal", "NotEqual"})
    THEN Try(parse_comparison(tokens, position + 1),
             LAMBDA right : parse_equality_loop(
                 tokens, BinaryExpr(tokens[position].t, left, right.expr), right.position))
    ELSE Parsed(left, position)

\* Parser::parse_equality
parse_equality(tokens, position) ==
    Try(parse_comparison(tokens, position),
        LAMBDA left : parse_equality_loop(tokens, left.expr, left.position))

\* the `while` of parse_and
parse_and_loop(tokens, left, position) ==
    IF check_token(tokens, position, "And")
    THEN Try(parse_equality(tokens, position + 1),
             LAMBDA right : parse_and_loop(tokens, And(left, right.expr), right.position))
    ELSE Parsed(left, position)

\* Parser::parse_and
parse_and(tokens, position) ==
    Try(parse_equality(tokens, position),
        LAMBDA left : parse_and_loop(tokens, left.expr, left.position))

\* the `while` of parse_or
parse_or_loop(tokens, left, position) ==
    IF check_token(tokens, position, "Or")
    THEN Try(parse_and(tokens, position + 1),
             LAMBDA right : parse_or_loop(tokens, Or(left, right.expr), right.position))
    ELSE Parsed(left, position)

\* Parser::parse_or
parse_or(tokens, position) ==
    Try(parse_and(tokens, position),
        LAMBDA left : parse_or_loop(tokens, left.expr, left.position))

\* Parser::parse_block for the tokens of the model: `return` and an expression
parse_block(tokens, position) ==
    IF check_token(tokens, position, "Return")
    THEN Try(parse_expression(tokens, position + 1),
             LAMBDA expr : [ok |-> TRUE, statement |-> Return(expr.expr),
                            position |-> expr.position])
    ELSE ParseError("Expected block statement")

\* Parser::parse: the block, then Eof
parse(tokens) ==
    Try(parse_block(tokens, 1),
        LAMBDA statement : IF check_token(tokens, statement.position, "Eof")
                           THEN [ok |-> TRUE, statement |-> statement.statement]
                           ELSE ParseError("Expected Eof"))

\* what the lexer hands over for `return <expression>`
ProgramTokens(expression) == <<Token("Return")>> \o expression \o <<Token("Eof")>>

-----------------------------------------------------------------------------
(* The parser alone: Parser::new on the text `return <expression>`, then    *)
(* one call of parse, as in the tests of parser.rs.                           *)

MaxShort == 3
MaxOperators == 2

\* the tokens of an expression: the two literals, the operators, the parentheses
ExpressionTokens ==
    {TokenNumber(2), TokenBool(TRUE)}
    \cup {Token(t) : t \in {"Or", "And", "Equal", "LessThan", "Plus", "Minus", "Multiply",
                            "Mod", "Power", "Not", "LeftParen", "RightParen"}}

\* the operands of the longer expressions: 2, - 2, ! true, ( 2 - 2 )
OperandForms ==
    {<<TokenNumber(2)>>,
     <<Token("Minus"), TokenNumber(2)>>,
     <<Token("Not"), TokenBool(TRUE)>>,
     <<Token("LeftParen"), TokenNumber(2), Token("Minus"), TokenNumber(2),
       Token("RightParen")>>}

\* one operator of every binary level
LevelOperators ==
    {Token(t) : t \in {"Or", "And", "Equal", "LessThan", "Minus", "Multiply", "Mod", "Power"}}

\* the expressions of the tests of parser.rs
AddMulExpression ==
    <<TokenNumber(2), Token("Plus"), TokenNumber(3), Token("Multiply"), TokenNumber(4)>>
PowerExpression ==
    <<TokenNumber(2), Token("Power"), TokenNumber(3), Token("Power"), TokenNumber(2)>>
OrAndExpression ==
    <<TokenBool(TRUE), Token("Or"), TokenBool(FALSE), Token("And"), TokenBool(TRUE)>>

TestExpressions == {AddMulExpression, PowerExpression, OrAndExpression}

parseFrame ==
    <<graph, layers, detached, pc, variable_cache, formula_result_cache,
      function_cache, function_result_cache, errors, batch, ret, li,
      wlog, results, nexec, evals, observed, engineNo, first, failed,
      invoked, nclear, unsatisfied>>

\* the lexer at work on the text after `return`: the tokens it has pushed
Lexing(expression, text, operators) ==
    [call |-> "Lexer::tokenize", expression |-> expression, text |-> text,
     operators |-> operators, parsed |-> <<>>]

\* Lexer::tokenize pushes the next token of a text of any tokens
LexToken(token) ==
    /\ \/ /\ returned = <<>>
          /\ returned' = Lexing(<<token>>, "any", 0)
       \/ /\ returned # <<>>
          /\ returned.call = "Lexer::tokenize"
          /\ returned.text = "any"
          /\ Len(returned.expression) < MaxShort
          /\ returned' = Lexing(Append(returned.expression, token), "any", 0)
    /\ UNCHANGED parseFrame

\* Lexer::tokenize pushes the first operand of a text `operand (operator operand)*`
LexOperand(operand) ==
    /\ returned = <<>>
    /\ returned' = Lexing(operand, "operators", 0)
    /\ UNCHANGED parseFrame

\* Lexer::tokenize pushes an operator and the operand after it
LexOperation(operator, operand) ==
    /\ returned # <<>>
    /\ returned.call = "Lexer::tokenize"
    /\ returned.text = "operators"
    /\ returned.operators < MaxOperators
    /\ returned' = Lexing(returned.expression \o <<operator>> \o operand, "operators",
                          returned.operators + 1)
    /\ UNCHANGED parseFrame

\* Lexer::tokenize on the text of one of the tests
LexTest(expression) ==
    /\ returned = <<>>
    /\ returned' = Lexing(expression, "test", 0)
    /\ UNCHANGED parseFrame

\* Parser::new(`return <expression>`), then parser.parse(): the lexer has
\* reached the end of the text and pushes Eof
Parse ==
    /\ IF returned = <<>> THEN TRUE ELSE returned.call = "Lexer::tokenize"
    /\ LET expression == IF returned = <<>> THEN <<>> ELSE returned.expression
       IN returned' = [call |-> "Parser::parse", expression |-> expression,
                       text |-> IF returned = <<>> THEN "any" ELSE returned.text,
                       operators |-> IF returned = <<>> THEN 0 ELSE returned.operators,
                       parsed |-> parse(ProgramTokens(expression))]
    /\ UNCHANGED parseFrame

NextParse ==
    \/ \E token \in ExpressionTokens : LexToken(token)
    \/ \E operand \in OperandForms : LexOperand(operand)
    \/ \E operator \in LevelOperators, operand \in OperandForms :
          LexOperation(operator, operand)
    \/ \E expression \in TestExpressions : LexTest(expression)
    \/ Parse

SpecParse == Init /\ [][NextParse]_vars

-----------------------------------------------------------------------------
(* C30: the grammar of the specification, read without recursive descent:   *)
(* an expression splits at its binary operator of lowest precedence outside  *)
(* parentheses, the last one of its level, the first one for '^'.            *)

\* the levels of the binary operators, lowest precedence first
BinaryLevel ==
    [Or |-> 1, And |-> 2, Equal |-> 3, NotEqual |-> 3,
     LessThan |-> 4, GreaterThan |-> 4, LessThanOrEqual |-> 4, GreaterThanOrEqual |-> 4,
     Plus |-> 5, Minus |-> 5, Multiply |-> 6, Divide |-> 6, Mod |-> 7, Power |-> 8]

\* open parentheses after token i
ParenDepth(tokens, i) ==
    Cardinality({j \in 1..i : tokens[j].t = "LeftParen"})
        - Cardinality({j \in 1..i : tokens[j].t = "RightParen"})

Balanced(tokens) ==
    /\ \A i \in 1..Len(tokens) : ParenDepth(tokens, i) >= 0
    /\ ParenDepth(tokens, Len(tokens)) = 0

\* the positions of the binary operators outside parentheses: an operator
\* token that follows the end of an operand
BinaryAt(tokens) ==
    {i \in 2..Len(tokens) :
        /\ tokens[i].t \in DOMAIN BinaryLevel
        /\ tokens[i - 1].t \in {"Number", "Bool", "RightParen"}
        /\ ParenDepth(tokens, i) = 0}

Greatest(S) == CHOOSE k \in S : \A j \in S : j <= k

RECURSIVE Reference(_)
\* the tree of the grammar for the tokens of an expression: <<tree>>, or <<>>
\* when the tokens are no expression
Reference(tokens) ==
    IF tokens = <<>> \/ ~Balanced(tokens) THEN <<>>
    ELSE IF BinaryAt(tokens) # {}
    THEN LET lowest == Least({BinaryLevel[tokens[i].t] : i \in BinaryAt(tokens)})
             there == {i \in BinaryAt(tokens) : BinaryLevel[tokens[i].t] = lowest}
             split == IF tokens[Least(there)].t = "Power" THEN Least(there)
                      ELSE Greatest(there)
             l == Reference(SubSeq(tokens, 1, split - 1))
             r == Reference(SubSeq(tokens, split + 1, Len(tokens)))
         IN IF l = <<>> \/ r = <<>> THEN <<>>
            ELSE <<BinaryExpr(tokens[split].t, l[1], r[1])>>
    ELSE IF tokens[1].t \in {"Minus", "Not"}
    THEN LET x == Reference(Tail(tokens))
         IN IF x = <<>> THEN <<>>
            ELSE IF tokens[1].t = "Minus" THEN <<UnaryMinus(x[1])>> ELSE <<Not(x[1])>>
    ELSE IF tokens[1].t = "LeftParen" /\ tokens[Len(tokens)].t = "RightParen"
    THEN Reference(SubSeq(tokens, 2, Len(tokens) - 1))
    ELSE IF Len(tokens) = 1 /\ tokens[1].t = "Number" THEN <<ExprNumber(tokens[1].v)>>
    ELSE IF Len(tokens) = 1 /\ tokens[1].t = "Bool" THEN <<ExprBool(tokens[1].b)>>
    ELSE <<>>

\* C30: the parser accepts exactly the token sequences of the grammar and
\* builds the tree its precedence order dictates, every binary level folded
\* left to right and '^' right to left: 2 + 3 * 4 is Add(2, Multiply(3, 4)),
\* 2 ^ 3 ^ 2 is Power(2, Power(3, 2)), true or false and true is
\* Or(true, And(false, true)).
C30_ParserBuildsReferenceTree ==
    (returned # <<>> /\ returned.call = "Parser::parse") =>
        /\ LET tree == Reference(returned.expression)
           IN IF tree = <<>> THEN ~returned.parsed.ok
              ELSE /\ returned.parsed.ok
                   /\ returned.parsed.statement = Return(tree[1])
        /\ returned.expression = AddMulExpression =>
              /\ returned.parsed.ok
              /\ returned.parsed.statement
                    = Return(Add(ExprNumber(2), Multiply(ExprNumber(3), ExprNumber(4))))
        /\ returned.expression = PowerExpression =>
              /\ returned.parsed.ok
              /\ returned.parsed.statement
                    = Return(Power(ExprNumber(2), Power(ExprNumber(3), ExprNumber(2))))
        /\ returned.expression = OrAndExpression =>
              /\ returned.parsed.ok
              /\ returned.parsed.statement
                    = Return(Or(ExprBool(TRUE), And(ExprBool(FALSE), ExprBool(TRUE))))

\* 2 ^ - 2 ^ ( 2 - 2 ) was parsed: '^' folds from the right, the unary
\* minus binds its operand before '^' does, the parentheses are a primary
C30_Witness ==
    /\ returned # <<>>
    /\ returned.call = "Parser::parse"
    /\ returned.parsed.ok
    /\ returned.parsed.statement
          = Return(Power(ExprNumber(2),
                         Power(UnaryMinus(ExprNumber(2)),
                               Subtract(ExprNumber(2), ExprNumber(2)))))

=============================================================================
